---- MODULE Spec2Model ----
(***************************************************************************)
(* A model of the castella storage gateway (src/src/store.rs, stream.rs,   *)
(* db.rs, drive.rs).                                                       *)
(*                                                                         *)
(* Several views of the program are modelled over one set of variables:    *)
(*   - the byte pipeline of one transfer (SpecPipe, SpecSend, SpecFetch):  *)
(*     chunk_stream, slice_stream, encrypt_stream, decrypt_stream, the     *)
(*     request body of create_file and the range arithmetic of Store::get  *)
(*     and Drive::get_file, on real byte sequences;                        *)
(*   - the metadata path of concurrent requests (Spec, SpecBurst,          *)
(*     SpecAccess): allocate_file, upload, get, get_info and delete as     *)
(*     tasks whose steps are the awaits of the code, the request limiter   *)
(*     and the clock of the database included;                             *)
(*   - the nonces of a ChunkStreamCipher (SpecNonce);                      *)
(*   - concurrent BandwidthLimiter::throttle calls (SpecThrottle).         *)
(* Sizes are scaled: CHUNK_SIZE, TAG_SIZE and DRIVE_MAX_FILE_LIMIT keep    *)
(* their role and every formula of the code is written in terms of them.   *)
(***************************************************************************)
EXTENDS Integers, Sequences, FiniteSets, TLC

\* ------------------------------------------------------------------ bounds
\* longest plaintext of the pipeline view, in bytes
MaxLen == 4
\* the remote delivers a response body in pieces of 1 .. MaxNet bytes
MaxNet == 3
\* the keys a secret may hold are 0 .. NumKeys-1
NumKeys == 2
\* the number of concurrent requests (tasks)
NumTasks == 2
\* the clock of the database runs from 0 to MaxClock
MaxClock == 2
\* the number of BandwidthLimiter::throttle calls of a run
MaxCalls == 3
\* seconds the clock of the upload limiter runs
MaxTime == 12
\* uploads sent one after the other
MaxTransfers == 2
\* the longest lifetime (expires_in) the token provider grants, in seconds
MaxExpiresIn == 5
\* seconds the clock of the authenticator runs
MaxAuthClock == 4
\* access_token calls of a run
MaxAuthCalls == 3
\* the highest migration version a database may carry
MaxVersion == 3
\* runs of migrate
MaxRuns == 3
\* the largest upload the server accepts (--server-max-upload-size), in bytes
MaxUploadSize == 2

\* ------------------------------------------------------- program constants
\* store.rs:39   const CHUNK_SIZE (1 MiB in the program)
CHUNK_SIZE == 2
\* store.rs:318  const TAG_SIZE (16 in the program)
TAG_SIZE == 1
\* store.rs:40
ENCRYPTED_CHUNK_SIZE == CHUNK_SIZE + TAG_SIZE
\* store.rs:344  u32 wrapping_add: the modulus of the chunk counter (2^32)
U32Mod == 8
\* store.rs:353  chunk: &[u8]: the number of values of a byte (256)
ByteMod == 2
\* store.rs:41   const DRIVE_MAX_FILE_LIMIT (350000 in the program)
DRIVE_MAX_FILE_LIMIT == 1
\* store.rs:161  u64::saturating_add: the largest u64 (2^64 - 1)
U64Max == 15
\* drive.rs:101  the unit of the upload limiter (1024 * 1024 in the program)
UNIT == 2
\* auth.rs:104  the early refresh, expires_in.saturating_sub(10).max(10) (10 s in the program)
EARLY_REFRESH == 2
\* store.rs:316  ChunkStreamCipher::KEY_SIZE (32 in the program): the key is one symbol
KEY_SIZE == 1
\* store.rs:317  ChunkStreamCipher::NONCE_SIZE (24 in the program): the nonce base is
\* its first 20 bytes as one symbol and its last four, a big-endian u32, as another
NONCE_SIZE == 2
\* store.rs:315  ChunkStreamCipher::SECRET_SIZE
SECRET_SIZE == KEY_SIZE + NONCE_SIZE
\* db.rs:380   define_key!(1, MigrationVersion, u32)
MIGRATION_VERSION == 1

Min(a, b) == IF a <= b THEN a ELSE b

\* a - b on unsigned integers, saturating at 0 (u64::saturating_sub)
saturating_sub(a, b) == IF a >= b THEN a - b ELSE 0

\* a + b on u64, saturating at the largest value (u64::saturating_add)
saturating_add(a, b) == IF a + b <= U64Max THEN a + b ELSE U64Max

Byte == 0 .. (ByteMod - 1)

RECURSIVE SeqsUpTo(_)
\* all byte sequences of length <= n
SeqsUpTo(n) ==
  IF n = 0 THEN {<<>>}
  ELSE LET S == SeqsUpTo(n - 1)
       IN  S \cup {Append(s, b) : s \in {x \in S : Len(x) = n - 1}, b \in Byte}

RECURSIVE Flatten(_)
\* the bytes of a sequence of chunks, in order
Flatten(chunks) ==
  IF chunks = <<>> THEN <<>> ELSE Head(chunks) \o Flatten(Tail(chunks))

\* s[from .. to) with 0-based half-open bounds (the slices of Rust)
Slice(s, from, to) == SubSeq(s, from + 1, Min(to, Len(s)))

RECURSIVE Pieces(_, _)
\* a byte sequence delivered in pieces of n bytes (the last may be shorter)
Pieces(s, n) ==
  IF Len(s) = 0 THEN <<>>
  ELSE <<SubSeq(s, 1, Min(n, Len(s)))>> \o Pieces(SubSeq(s, Min(n, Len(s)) + 1, Len(s)), n)

RECURSIVE Chunkings(_)
\* every way of delivering a byte sequence as non-empty chunks
Chunkings(s) ==
  IF Len(s) = 0 THEN {<<>>}
  ELSE UNION {{<<SubSeq(s, 1, k)>> \o c : c \in Chunkings(SubSeq(s, k + 1, Len(s)))}
              : k \in 1 .. Len(s)}

\* A stream is what its consumer sees when it polls to the end: the chunks
\* yielded, then either a clean end (err = FALSE) or one error (err = TRUE).
Stream(items, err) == [items |-> items, err |-> err]

\* ---------------------------------------------------------------- the cipher
\* ChunkStreamCipher: a secret is a key and a nonce base; only the last four
\* bytes of the nonce base (suffix) take part in the chunk counter.
Secrets ==
  {[key |-> k, prefix |-> 0, suffix |-> (U32Mod - k) % U32Mod] : k \in 0 .. (NumKeys - 1)}

\* one of them, where it does not matter which
ASecret == CHOOSE s \in Secrets : TRUE

\* the secret laid out with the nonce base before the key
as_bytes_nonce_first(secret) == <<secret.prefix, secret.suffix, secret.key>>

\* gen_secret's array as add_file binds it (&*secret): the key, then the
\* nonce base
as_bytes(secret) == <<secret.key, secret.prefix, secret.suffix>>

\* a cipher made of whatever bytes are stored, missing ones taken as 0
secret_of_lenient(bytes) ==
  [ok |-> TRUE,
   secret |-> [key |-> IF Len(bytes) >= 1 THEN bytes[1] ELSE 0,
               prefix |-> IF Len(bytes) >= 2 THEN bytes[2] ELSE 0,
               suffix |-> IF Len(bytes) >= 3 THEN bytes[3] ELSE 0]]

\* Store::get: file.secret.clone().try_into().map_err(|_| Error::SecretInvalid)?
\* then ChunkStreamCipher::new, which splits the array at KEY_SIZE
secret_of(bytes) ==
  IF Len(bytes) = SECRET_SIZE
  THEN [ok |-> TRUE,
        secret |-> [key |-> bytes[KEY_SIZE], prefix |-> bytes[KEY_SIZE + 1],
                    suffix |-> bytes[SECRET_SIZE]]]
  ELSE [ok |-> FALSE, secret |-> ASecret]

\* get_chunk_nonce adding the chunk index without wrapping
get_chunk_nonce_saturating(secret, chunk_id) ==
  [prefix |-> secret.prefix, suffix |-> Min(secret.suffix + chunk_id, U32Mod - 1)]

get_chunk_nonce(secret, chunk_id) ==
  [prefix |-> secret.prefix, suffix |-> (secret.suffix + chunk_id) % U32Mod]

\* the keystream byte XChaCha20 adds at position i under (key, nonce)
KeyStream(key, nonce, i) == (key + nonce.suffix + i) % ByteMod

RECURSIVE SeqCode(_)
\* an injective code of a byte sequence
SeqCode(s) ==
  IF s = <<>> THEN 0 ELSE (Head(s) + 1) + (ByteMod + 1) * SeqCode(Tail(s))

\* The Poly1305 tag of a ciphertext body under (key, nonce): an injective
\* function of all three, with values outside Byte (a forged tag is found
\* only by guessing).
Mac(key, nonce, body) ==
  ByteMod + key + NumKeys * (nonce.suffix + U32Mod * SeqCode(body))

encrypt(secret, chunk_id, chunk) ==
  LET nonce == get_chunk_nonce(secret, chunk_id)
      body  == [i \in 1 .. Len(chunk) |->
                  (chunk[i] + KeyStream(secret.key, nonce, i)) % ByteMod]
  IN  body \o [j \in 1 .. TAG_SIZE |-> Mac(secret.key, nonce, body)]

\* decrypt without the tag check
decrypt_unverified(secret, chunk_id, chunk) ==
  LET nonce == get_chunk_nonce(secret, chunk_id)
      n     == Len(chunk) - TAG_SIZE
  IN  IF n < 0 THEN [ok |-> FALSE, data |-> <<>>]
      ELSE [ok |-> TRUE,
            data |-> [i \in 1 .. n |->
                        (chunk[i] + ByteMod - KeyStream(secret.key, nonce, i)) % ByteMod]]

\* [ok, data]: the plaintext of a chunk if its tag verifies
decrypt(secret, chunk_id, chunk) ==
  LET nonce == get_chunk_nonce(secret, chunk_id)
      n     == Len(chunk) - TAG_SIZE
      body  == SubSeq(chunk, 1, n)
  IN  IF n < 0 \/ \E j \in (n + 1) .. Len(chunk) :
                     chunk[j] # Mac(secret.key, nonce, body)
      THEN [ok |-> FALSE, data |-> <<>>]
      ELSE [ok |-> TRUE,
            data |-> [i \in 1 .. n |->
                        (body[i] + ByteMod - KeyStream(secret.key, nonce, i)) % ByteMod]]

\* ------------------------------------------------------------ stream adapters
RECURSIVE slice_poll(_, _, _, _)
\* slice_stream's unfold from state (offset, limit) over the rest of the source
slice_poll(items, srcErr, offset, limit) ==
  IF offset # 0
  THEN IF items = <<>> THEN Stream(<<>>, srcErr)
       ELSE LET chunk == Head(items)
                size  == Len(chunk)
            IN  IF size <= offset
                THEN slice_poll(Tail(items), srcErr, offset - size, limit)
                ELSE LET rest == slice_poll(Tail(items), srcErr, 0, limit)
                     IN  Stream(<<SubSeq(chunk, offset + 1, size)>> \o rest.items,
                                rest.err)
  ELSE IF limit = 0 THEN Stream(<<>>, FALSE)
       ELSE IF items = <<>> THEN Stream(<<>>, srcErr)
            ELSE LET chunk == Head(items)
                     take  == Min(limit, Len(chunk))
                     rest  == slice_poll(Tail(items), srcErr, 0, limit - take)
                 IN  Stream(<<SubSeq(chunk, 1, take)>> \o rest.items, rest.err)

slice_stream(stream, start, end) ==
  slice_poll(stream.items, stream.err, start, end - start)

RECURSIVE chunk_poll_lenient(_, _, _, _)
\* chunk_stream's unfold with read in place of read_exact: a short source gives
\* a short last chunk and a clean end
chunk_poll_lenient(bytes, srcErr, chunk_size, remaining) ==
  LET read == Min(remaining, chunk_size)
  IN  IF read = 0 THEN Stream(<<>>, FALSE)
      ELSE IF Len(bytes) < read
           THEN Stream(IF bytes = <<>> THEN <<>> ELSE <<bytes>>, FALSE)
           ELSE LET rest == chunk_poll_lenient(SubSeq(bytes, read + 1, Len(bytes)), srcErr,
                                               chunk_size, remaining - read)
                IN  Stream(<<SubSeq(bytes, 1, read)>> \o rest.items, rest.err)

RECURSIVE chunk_poll(_, _, _, _)
\* chunk_stream's unfold: read_exact of min(remaining, chunk_size) bytes from
\* the reader over the source
chunk_poll(bytes, srcErr, chunk_size, remaining) ==
  LET read == Min(remaining, chunk_size)
  IN  IF read = 0 THEN Stream(<<>>, FALSE)
      ELSE IF Len(bytes) < read THEN Stream(<<>>, TRUE)
           ELSE LET rest == chunk_poll(SubSeq(bytes, read + 1, Len(bytes)), srcErr,
                                       chunk_size, remaining - read)
                IN  Stream(<<SubSeq(bytes, 1, read)>> \o rest.items, rest.err)

\* chunk_stream reading the source to its end, whatever size was declared
chunk_stream_unbounded(size, stream, chunk_size) ==
  chunk_poll(Flatten(stream.items), stream.err, chunk_size, Len(Flatten(stream.items)))

chunk_stream(size, stream, chunk_size) ==
  chunk_poll(Flatten(stream.items), stream.err, chunk_size, size)

RECURSIVE encrypt_poll(_, _, _, _)
encrypt_poll(items, srcErr, secret, chunk_id) ==
  IF items = <<>> THEN Stream(<<>>, srcErr)
  ELSE LET rest == encrypt_poll(Tail(items), srcErr, secret, chunk_id + 1)
       IN  Stream(<<encrypt(secret, chunk_id, Head(items))>> \o rest.items, rest.err)

\* encrypt_stream with a chunk counter that does not advance
encrypt_stream_fixed(stream, secret, chunk_id) ==
  Stream([i \in 1 .. Len(stream.items) |-> encrypt(secret, chunk_id, stream.items[i])],
         stream.err)

encrypt_stream(stream, secret, chunk_id) ==
  encrypt_poll(stream.items, stream.err, secret, chunk_id)

RECURSIVE decrypt_poll_resuming(_, _, _, _)
\* decrypt_stream that reports a chunk it cannot open and goes on with the next
decrypt_poll_resuming(items, srcErr, secret, chunk_id) ==
  IF items = <<>> THEN Stream(<<>>, srcErr)
  ELSE LET chunk == decrypt(secret, chunk_id, Head(items))
           rest  == decrypt_poll_resuming(Tail(items), srcErr, secret, chunk_id + 1)
       IN  IF ~chunk.ok THEN Stream(rest.items, TRUE)
           ELSE Stream(<<chunk.data>> \o rest.items, rest.err)

RECURSIVE decrypt_poll(_, _, _, _)
decrypt_poll(items, srcErr, secret, chunk_id) ==
  IF items = <<>> THEN Stream(<<>>, srcErr)
  ELSE LET chunk == decrypt(secret, chunk_id, Head(items))
       IN  IF ~chunk.ok THEN Stream(<<>>, TRUE)
           ELSE LET rest == decrypt_poll(Tail(items), srcErr, secret, chunk_id + 1)
                IN  Stream(<<chunk.data>> \o rest.items, rest.err)

\* decrypt_stream with a chunk counter that starts one too far
decrypt_stream_shifted(stream, secret, chunk_id) ==
  decrypt_poll(stream.items, stream.err, secret, chunk_id + 1)

decrypt_stream(stream, secret, chunk_id) ==
  decrypt_poll(stream.items, stream.err, secret, chunk_id)

\* ------------------------------------------------- the data path of a transfer
\* ciphertext expansion with one tag for each whole chunk only
encrypted_size_floor(size) ==
  size + (size \div CHUNK_SIZE) * TAG_SIZE

\* ciphertext expansion, one tag for each encrypted chunk (store.rs:132, 200)
encrypted_size(size) ==
  size + (saturating_sub(size, 1) \div CHUNK_SIZE + 1) * TAG_SIZE

\* the multipart framing of Drive::create_file: the metadata part and the
\* closing boundary around the media part
body_prefix == <<0, 1>>
body_suffix == <<1>>

\* the content-length header of the request
concat_len(size) == Len(body_prefix) + size + Len(body_suffix)

\* the request body: prefix, media, suffix (an error of the media ends it)
concat(stream) ==
  Stream(<<body_prefix>> \o stream.items \o (IF stream.err THEN <<>> ELSE <<body_suffix>>),
         stream.err)

\* Drive::create_file as the remote sees it: the media part is stored iff the
\* body stream ends without error having delivered exactly the bytes counted
\* in content-length.
create_file(size, stream) ==
  LET body == concat(stream)
  IN  IF body.err \/ Len(Flatten(body.items)) # concat_len(size)
      THEN [ok |-> FALSE, object |-> <<>>]
      ELSE [ok |-> TRUE, object |-> Flatten(stream.items)]

\* the body handed to create_file by Store::upload
upload_stream(size, content, secret) ==
  encrypt_stream(chunk_stream(size, content, CHUNK_SIZE), secret, 0)

\* Bound<u64> of a requested range
Included(v) == [k |-> "Included", v |-> v]
Excluded(v) == [k |-> "Excluded", v |-> v]
Unbounded == [k |-> "Unbounded", v |-> 0]
NoRange == [some |-> FALSE, start |-> Unbounded, end |-> Unbounded]
SomeRange(s, e) == [some |-> TRUE, start |-> s, end |-> e]
Range(s, e) == [start |-> s, end |-> e]

\* resolve_range without the check of the end against the size
resolve_range_unchecked(range, size) ==
  LET start == CASE range.start.k = "Included" -> range.start.v
                 [] range.start.k = "Excluded" -> saturating_add(range.start.v, 1)
                 [] OTHER -> 0
      end   == CASE range.end.k = "Included" -> saturating_add(range.end.v, 1)
                 [] range.end.k = "Excluded" -> range.end.v
                 [] OTHER -> size
  IN  IF start < end
      THEN [some |-> TRUE, start |-> start, end |-> end]
      ELSE [some |-> FALSE, start |-> 0, end |-> 0]

\* Option<Range<u64>>
resolve_range(range, size) ==
  LET start == CASE range.start.k = "Included" -> range.start.v
                 [] range.start.k = "Excluded" -> saturating_add(range.start.v, 1)
                 [] OTHER -> 0
      end   == CASE range.end.k = "Included" -> saturating_add(range.end.v, 1)
                 [] range.end.k = "Excluded" -> range.end.v
                 [] OTHER -> size
  IN  IF start < end /\ end <= size
      THEN [some |-> TRUE, start |-> start, end |-> end]
      ELSE [some |-> FALSE, start |-> 0, end |-> 0]

\* the ranges Store::get computes for a file of `size` bytes
\* get_ranges without the clamp of the ciphertext range to the encrypted size
get_ranges_unclamped(size, range) ==
  LET resolved == IF range.some THEN resolve_range(range, size)
                  ELSE [some |-> FALSE, start |-> 0, end |-> 0]
      r   == IF resolved.some THEN Range(resolved.start, resolved.end)
             ELSE Range(0, size)
      cs  == (r.start \div CHUNK_SIZE) % U32Mod
      ce  == (saturating_sub(r.end, 1) \div CHUNK_SIZE + 1) % U32Mod
      ts  == r.start - cs * CHUNK_SIZE
  IN  [range |-> r,
       chunk_range |-> Range(cs, ce),
       encrypted_range |-> Range(cs * ENCRYPTED_CHUNK_SIZE, ce * ENCRYPTED_CHUNK_SIZE),
       content_range |-> Range(ts, ts + (r.end - r.start))]

get_ranges(size, range) ==
  LET resolved == IF range.some THEN resolve_range(range, size)
                  ELSE [some |-> FALSE, start |-> 0, end |-> 0]
      r   == IF resolved.some THEN Range(resolved.start, resolved.end)
             ELSE Range(0, size)
      cs  == (r.start \div CHUNK_SIZE) % U32Mod
      ce  == (saturating_sub(r.end, 1) \div CHUNK_SIZE + 1) % U32Mod
      es  == cs * ENCRYPTED_CHUNK_SIZE
      ee  == Min(ce * ENCRYPTED_CHUNK_SIZE, encrypted_size(size))
      ts  == r.start - cs * CHUNK_SIZE
  IN  [range |-> r,
       chunk_range |-> Range(cs, ce),
       encrypted_range |-> Range(es, ee),
       content_range |-> Range(ts, ts + (r.end - r.start))]

\* What the remote answers to a ranged GET: the status, the range headers
\* (typed = FALSE when the header is absent) and the body.
Partial(object, from, to) ==
  [status |-> 206, typed |-> TRUE, first |-> from, last |-> to - 1, len |-> 0,
   body |-> Slice(object, from, to)]
Full(object) ==
  [status |-> 200, typed |-> TRUE, first |-> 0, last |-> 0, len |-> Len(object),
   body |-> object]
Refused ==
  [status |-> 416, typed |-> FALSE, first |-> 0, last |-> 0, len |-> 0, body |-> <<>>]

\* the answers of a remote holding `object` to a GET of `range`:
\*   exact    206 with the requested range (416 if it starts beyond the object)
\*   whole    200 with the whole object
\*   early    206 with a range starting one byte before the requested start
\*   long     206 with a range ending one byte after the requested end
\*   late     206 with a range starting one byte after the requested start
\*   short    206 with a range ending one byte before the requested end
\*   bare206  206 with the requested bytes and no content-range header
\*   bare200  200 with the whole object and no content-length header
AnswerKinds == {"exact", "whole", "early", "long", "late", "short", "bare206", "bare200"}

Answer(object, range, kind) ==
  LET n   == Len(object)
      end == Min(range.end, n)
  IN  IF kind \in {"whole", "bare200"}
      THEN [Full(object) EXCEPT !.typed = (kind = "whole")]
      ELSE IF range.start >= n THEN Refused
      ELSE CASE kind = "early" -> Partial(object, saturating_sub(range.start, 1), end)
             [] kind = "long"  -> Partial(object, range.start, Min(range.end + 1, n))
             [] kind = "late"  -> Partial(object, range.start + 1, end)
             [] kind = "short" -> Partial(object, range.start, end - 1)
             [] kind = "bare206" ->
                  [Partial(object, range.start, end) EXCEPT !.typed = FALSE]
             [] OTHER -> Partial(object, range.start, end)

\* the range of the response as Drive::get_file reads it from the headers
response_range(range, answer) ==
  IF ~answer.typed THEN range
  ELSE IF answer.status = 206
       THEN Range(answer.first, saturating_add(answer.last, 1))
       ELSE Range(0, answer.len)

\* get_file checking only the start of the response range
get_file_start_only(range, answer, net) ==
  LET rr == response_range(range, answer)
  IN  IF answer.status \notin {200, 206}
      THEN [ok |-> FALSE, error |-> "FileGet", stream |-> Stream(<<>>, TRUE), range |-> rr]
      ELSE IF rr.start > range.start
           THEN [ok |-> FALSE, error |-> "FileRangeResponseInvalid",
                 stream |-> Stream(<<>>, TRUE), range |-> rr]
           ELSE [ok |-> TRUE, error |-> "none",
                 stream |-> Stream(Pieces(answer.body, net), FALSE), range |-> rr]

\* Drive::get_file: a status other than 2xx is an error; the response range is
\* validated against the requested one; the body arrives in pieces of `net`
\* bytes.
get_file(range, answer, net) ==
  LET rr == response_range(range, answer)
  IN  IF answer.status \notin {200, 206}
      THEN [ok |-> FALSE, error |-> "FileGet", stream |-> Stream(<<>>, TRUE), range |-> rr]
      ELSE IF rr.start > range.start \/ rr.end < range.end
           THEN [ok |-> FALSE, error |-> "FileRangeResponseInvalid",
                 stream |-> Stream(<<>>, TRUE), range |-> rr]
           ELSE [ok |-> TRUE, error |-> "none",
                 stream |-> Stream(Pieces(answer.body, net), FALSE), range |-> rr]

\* the ciphertext stage of Store::get with the response body sliced from its
\* first byte
get_chunked_unsliced(response, ranges) ==
  LET length == ranges.encrypted_range.end - ranges.encrypted_range.start
  IN  chunk_stream(length, slice_stream(response.stream, 0, length), ENCRYPTED_CHUNK_SIZE)

\* the ciphertext stage of Store::get (store.rs:264-274): the response body
\* sliced to the requested ciphertext range and rechunked, as it is handed to
\* decrypt_stream
get_chunked(response, ranges) ==
  LET start   == ranges.encrypted_range.start - response.range.start
      end     == start + (ranges.encrypted_range.end - ranges.encrypted_range.start)
      view    == slice_stream(response.stream, start, end)
      length  == end - start
  IN  chunk_stream(length, view, ENCRYPTED_CHUNK_SIZE)

\* the content stream of Store::get (store.rs:264-276)
get_content(response, ranges, secret) ==
  LET chunked   == get_chunked(response, ranges)
      decrypted == decrypt_stream(chunked, secret, ranges.chunk_range.start)
  IN  slice_stream(decrypted, ranges.content_range.start, ranges.content_range.end)

\* ------------------------------------------------------------------- state

Tasks == 1 .. NumTasks

VARIABLES
  drives,        \* table drives: rows [key, id]
  files,         \* table files: rows [key, id, drive_key, accessed_time]
  driveSeq,      \* last value of the serial drives.key
  fileSeq,       \* last value of the serial files.key
  remoteDrives,  \* ids of the shared drives created at the remote
  remoteFiles,   \* ids of the objects present at the remote
  remoteSeq,     \* last id handed out by the remote
  gate,          \* Store.file_alloc_mutex: 0 when free, else the task holding it
  pc,            \* per task: the await it is at
  op,            \* per task: the operation it runs
  key,           \* per task: the file key of a get, get_info or delete
  drive,         \* per task: the drive row returned by allocate_file
  handle,        \* per task: the remote id of its file
  res,           \* per task: what the operation returned
  now,           \* the clock of the database: timezone('utc', now())
  permit,        \* per task: its drive call has passed request_limiter.until_ready()
  acquired,      \* cells taken from Drive.request_limiter so far
  drive_calls    \* drive client calls that went on to their request so far

storeVars == <<drives, files, driveSeq, fileSeq, remoteDrives, remoteFiles, remoteSeq,
               gate, pc, op, key, drive, handle, res, now, permit, acquired, drive_calls>>

VARIABLES
  \* a ChunkStreamCipher and the nonces it has derived
  stream_cipher,  \* the secret: [key, prefix, suffix]
  nonces          \* the nonces derived so far: records [chunk_id, nonce]

cipherVars == <<stream_cipher, nonces>>

VARIABLES
  \* the BandwidthLimiter of the drive client
  leftover,  \* BandwidthLimiter.leftover: the residual, an AtomicU64
  consumed,  \* cells requested of BandwidthLimiter.limiter so far
  passed,    \* bytes of all the buffers passed to throttle so far
  calls,     \* throttle calls started so far
  thr        \* per task, its throttle call: [at, length, old, consume]

throttleVars == <<leftover, consumed, passed, calls, thr>>

VARIABLES
  \* the pipeline view: one file through upload, the remote and download
  pphase,    \* "new", "stored", "failed", "got", "sliced", "tripped"
  content,   \* the bytes of the upload's source stream
  file,      \* the file record: [size, secret]
  object,    \* the bytes of the remote object
  corrupt,   \* the ciphertext chunks of the object altered at the remote
  got,       \* the last download: [range, kind, ok, ranges, response, fed, out]
  sliced,    \* the last slice_stream run: [chunks, lo, hi, out]
  trip,      \* the last encrypt-then-decrypt run: [secret, cipher, out]
  rechunked, \* the last chunk_stream run: [size, chunk_size, supplied, out]
  sent       \* the create_file request of the upload: lengths declared and sent

pipeVars == <<pphase, content, file, object, corrupt, got, sliced, trip, rechunked, sent>>

VARIABLES
  \* one request body on its way through throttle_stream
  body,      \* the lengths of the buffers the body stream has yet to yield
  ltime,     \* the clock of BandwidthLimiter.limiter, in seconds
  tat,       \* the state of BandwidthLimiter.limiter: when its next cell is due
  transfer,  \* the upload the body belongs to: [at, size, start, idle]
  transfers  \* uploads started so far

bodyVars == <<body, ltime, tat, transfer, transfers>>

VARIABLES
  \* the Authenticator
  access_token,    \* Authenticator.access_token: [some, token, expires]
  alock,           \* the Mutex around it: 0 when free, else the task holding it
  apc,             \* per task: where its access_token call is
  areq,            \* per task: its token request: [now, expires_in, token]
  aret,            \* per task: the token its last call returned, 0 if none
  token_requests,  \* token requests sent to the provider so far
  aclock,          \* tokio's Instant::now(), in seconds
  acalls,          \* access_token calls made so far
  token_until      \* the provider's side of the cached token: the instant its
                   \* declared lifetime ends, fetch time + expires_in

authVars == <<access_token, alock, apc, areq, aret, token_requests, aclock, acalls,
              token_until>>

VARIABLES
  \* the database at start-up
  config,  \* table config as committed: [table, rows], rows of [key, value]
  tables,  \* the tables the migrations committed so far have created
  mig,     \* the run of migrate: [at, version, config, tables, step]
  mres,    \* what the last run of migrate returned
  mruns    \* runs of migrate so far

migVars == <<config, tables, mig, mres, mruns>>

VARIABLES
  \* the HTTP front end
  request    \* per task: its POST /: [length, status, size]

frontVars == <<request>>

sideVars == <<bodyVars, authVars, migVars, frontVars>>

vars == <<pphase, content, file, object, corrupt, got, sliced, trip, rechunked, sent,
          drives, files, driveSeq, fileSeq, remoteDrives, remoteFiles, remoteSeq,
          gate, pc, op, key, drive, handle, res, now, permit, acquired, drive_calls,
          stream_cipher, nonces, leftover, consumed, passed, calls, thr,
          body, ltime, tat, transfer, transfers,
          access_token, alock, apc, areq, aret, token_requests, aclock, acalls,
          token_until,
          config, tables, mig, mres, mruns, request>>

NoFile == [size |-> 0, secret |-> as_bytes(ASecret)]
NoGot == [range |-> NoRange, kind |-> "exact", wide |-> FALSE, ok |-> FALSE,
          error |-> "none", ranges |-> get_ranges(0, NoRange), response |-> Range(0, 0),
          fed |-> Stream(<<>>, FALSE), out |-> Stream(<<>>, FALSE)]
NoSliced == [chunks |-> <<>>, lo |-> 0, hi |-> 0, out |-> Stream(<<>>, FALSE)]
NoTrip == [secret |-> ASecret, cipher |-> <<>>,
           out |-> Stream(<<>>, FALSE)]
NoRechunked == [done |-> FALSE, size |-> 0, chunk_size |-> 1, supplied |-> 0,
                out |-> Stream(<<>>, FALSE)]
NoSent == [done |-> FALSE, size |-> 0, supplied |-> 0, encrypted_size |-> 0,
           length |-> 0, media |-> 0, body |-> 0, err |-> FALSE]

PipeFresh ==
  /\ pphase = "new"
  /\ content \in SeqsUpTo(MaxLen)
  /\ file = NoFile
  /\ object = <<>>
  /\ corrupt = {}
  /\ got = NoGot
  /\ sliced = NoSliced
  /\ trip = NoTrip
  /\ rechunked = NoRechunked
  /\ sent = NoSent

\* the sizes a caller declares for a source of n bytes
DeclaredSizes(n) == {0, n, n + 1}

\* Store::upload, data path: gen_secret, chunk, encrypt, create_file, add_file
PipeUpload(size, secret, net) ==
  /\ pphase = "new"
  /\ LET source  == Stream(Pieces(content, net), FALSE)
         stream  == upload_stream(size, source, secret)
         created == create_file(encrypted_size(size), stream)
     IN  /\ IF created.ok
            THEN /\ pphase' = "stored"
                 /\ object' = created.object
                 /\ file' = [size |-> size, secret |-> as_bytes(secret)]
            ELSE /\ pphase' = "failed"
                 /\ UNCHANGED <<object, file>>
         /\ sent' = [done |-> TRUE, size |-> size, supplied |-> Len(content),
                     encrypted_size |-> encrypted_size(size),
                     length |-> concat_len(encrypted_size(size)),
                     media |-> Len(Flatten(stream.items)),
                     body |-> Len(Flatten(concat(stream).items)),
                     err |-> stream.err]
  /\ UNCHANGED <<content, corrupt, got, sliced, trip, rechunked>>
  /\ UNCHANGED <<storeVars, cipherVars, throttleVars, sideVars>>

\* the remote (or the network) alters byte i of the stored object
PipeTamper(i) ==
  /\ pphase = "stored"
  /\ corrupt = {}
  /\ i \in 1 .. Len(object)
  /\ object' = [object EXCEPT ![i] = IF @ < ByteMod THEN (@ + 1) % ByteMod ELSE @ + 1]
  /\ corrupt' = {(i - 1) \div ENCRYPTED_CHUNK_SIZE}
  /\ UNCHANGED <<pphase, content, file, got, sliced, trip, rechunked, sent>>
  /\ UNCHANGED <<storeVars, cipherVars, throttleVars, sideVars>>

\* Store::get, data path, with its content stream polled to the end
PipeGet(range, kind, net) ==
  /\ pphase = "stored"
  /\ LET cipher   == secret_of(file.secret)
         ranges   == get_ranges(file.size, range)
         answer   == Answer(object, ranges.encrypted_range, kind)
         response == get_file(ranges.encrypted_range, answer, net)
     IN  got' = IF cipher.ok
                THEN [range |-> range, kind |-> kind, wide |-> (kind = "whole"),
                      ok |-> response.ok, error |-> response.error,
                      ranges |-> ranges, response |-> response.range,
                      fed |-> IF response.ok THEN get_chunked(response, ranges)
                              ELSE Stream(<<>>, FALSE),
                      out |-> IF response.ok
                              THEN get_content(response, ranges, cipher.secret)
                              ELSE Stream(<<>>, FALSE)]
                ELSE [NoGot EXCEPT !.range = range, !.kind = kind,
                                   !.error = "SecretInvalid"]
  /\ pphase' = "got"
  /\ UNCHANGED <<content, file, object, corrupt, sliced, trip, rechunked, sent>>
  /\ UNCHANGED <<storeVars, cipherVars, throttleVars, sideVars>>

\* slice_stream on the source delivered in the chunks `chunks`
PipeSlice(chunks, lo, hi) ==
  /\ pphase = "new"
  /\ lo <= hi
  /\ sliced' = [chunks |-> chunks, lo |-> lo, hi |-> hi,
                out |-> slice_stream(Stream(chunks, FALSE), lo, hi)]
  /\ pphase' = "sliced"
  /\ UNCHANGED <<content, file, object, corrupt, got, trip, rechunked, sent>>
  /\ UNCHANGED <<storeVars, cipherVars, throttleVars, sideVars>>

\* encrypt_stream over the source rechunked at CHUNK_SIZE, from chunk 0, then
\* decrypt_stream over the ciphertext rechunked at ENCRYPTED_CHUNK_SIZE
PipeRoundTrip(secret, net) ==
  /\ pphase = "new"
  /\ LET source    == Stream(Pieces(content, net), FALSE)
         encrypted == encrypt_stream(chunk_stream(Len(content), source, CHUNK_SIZE),
                                     secret, 0)
         cipher    == Flatten(encrypted.items)
         decrypted == decrypt_stream(
                        chunk_stream(Len(cipher), Stream(Pieces(cipher, net), encrypted.err),
                                     ENCRYPTED_CHUNK_SIZE), secret, 0)
     IN  trip' = [secret |-> secret, cipher |-> cipher, out |-> decrypted]
  /\ pphase' = "tripped"
  /\ UNCHANGED <<content, file, object, corrupt, got, sliced, rechunked, sent>>
  /\ UNCHANGED <<storeVars, cipherVars, throttleVars, sideVars>>

\* chunk_stream(size, source, chunk_size) polled to the end, the source
\* delivered in pieces of `net` bytes and ending cleanly or with an error
PipeRechunk(size, chunk_size, net, fails) ==
  /\ pphase = "new"
  /\ rechunked' = [done |-> TRUE, size |-> size, chunk_size |-> chunk_size,
                   supplied |-> Len(content),
                   out |-> chunk_stream(size, Stream(Pieces(content, net), fails),
                                        chunk_size)]
  /\ pphase' = "rechunked"
  /\ UNCHANGED <<content, file, object, corrupt, got, sliced, trip, sent>>
  /\ UNCHANGED <<storeVars, cipherVars, throttleVars, sideVars>>

\* the chunk sizes of the program and one more
ChunkSizes == 1 .. (ENCRYPTED_CHUNK_SIZE + 1)

\* the upload side of a transfer
SendNext ==
  \/ \E size \in 0 .. (MaxLen + 1), chunk_size \in ChunkSizes, net \in 1 .. MaxNet,
         fails \in BOOLEAN :
       PipeRechunk(size, chunk_size, net, fails)
  \/ \E size \in 0 .. (Len(content) + 1), secret \in Secrets, net \in 1 .. MaxNet :
       PipeUpload(size, secret, net)

\* the ranges a caller may ask for
RangeRequests ==
  {NoRange, SomeRange(Included(1), Excluded(1)), SomeRange(Included(2), Excluded(1))}
    \cup {SomeRange(Included(r[1]), Excluded(r[2])) :
            r \in {x \in (0 .. MaxLen) \X (1 .. MaxLen) : x[1] < x[2]}}

\* further bounds a caller may pass: unbounded, inclusive and exclusive ones
RangeBounds ==
  RangeRequests \cup
    {SomeRange(Unbounded, Unbounded),
     SomeRange(Included(1), Unbounded),
     SomeRange(Included(CHUNK_SIZE), Unbounded),
     SomeRange(Unbounded, Included(1)),
     SomeRange(Included(1), Included(2)),
     SomeRange(Included(0), Included(U64Max)),
     SomeRange(Excluded(0), Included(1)),
     SomeRange(Excluded(0), Excluded(MaxLen + 1))}

\* the download side of a transfer, with a remote free in its answers
FetchNext ==
  \/ \E size \in DeclaredSizes(Len(content)), secret \in Secrets, net \in 1 .. MaxNet :
       PipeUpload(size, secret, net)
  \/ \E range \in RangeBounds, kind \in AnswerKinds, net \in 1 .. MaxNet :
       PipeGet(range, kind, net)

PipeNext ==
  \/ \E size \in DeclaredSizes(Len(content)), secret \in Secrets, net \in 1 .. MaxNet :
       PipeUpload(size, secret, net)
  \/ \E i \in 1 .. (MaxLen + (MaxLen \div CHUNK_SIZE + 1) * TAG_SIZE) : PipeTamper(i)
  \/ \E range \in RangeRequests, kind \in {"exact", "whole"}, net \in 1 .. MaxNet :
       PipeGet(range, kind, net)
  \/ \E chunks \in Chunkings(content), lo \in 0 .. (MaxLen + 1), hi \in 0 .. (MaxLen + 1) :
       PipeSlice(chunks, lo, hi)
  \/ \E secret \in Secrets, net \in 1 .. MaxNet : PipeRoundTrip(secret, net)


NoDrive == [key |-> 0, id |-> 0]

\* count(drive_key) of table files, grouped by drive_key; coalesce(count, 0)
\* for a drive without files
FileCount(fs, drive_key) == Cardinality({f \in fs : f.drive_key = drive_key})

\* get_drive_by_least_files without the order by
get_drive_by_least_files_unordered(ds, fs, max_files) ==
  {d \in ds : FileCount(fs, d.key) <= max_files}

\* DbExecutor::get_drive_by_least_files: the rows the query may return (limit 1
\* of the drives within max_files, by ascending count); empty for None
get_drive_by_least_files(ds, fs, max_files) ==
  {d \in ds :
     /\ FileCount(fs, d.key) <= max_files
     /\ \A e \in ds : FileCount(fs, e.key) <= max_files
                        => FileCount(fs, d.key) <= FileCount(fs, e.key)}

\* Metadata states the program reaches, from which the tasks start.
\* n sequential uploads into the empty system: one drive holding n files.
OneDrive(n) ==
  /\ drives = {[key |-> 1, id |-> 1]}
  /\ files = {[key |-> k, id |-> k + 1, drive_key |-> 1, accessed_time |-> 0,
                secret |-> as_bytes(ASecret)] : k \in 1 .. n}
  /\ driveSeq = 1
  /\ fileSeq = n
  /\ remoteDrives = {1}
  /\ remoteFiles = 2 .. (n + 1)
  /\ remoteSeq = n + 1

\* n + 1 sequential uploads, a further upload whose allocation creates the
\* second drive and whose create_file fails, then a delete of the last file:
\* the first drive holds n files, the second none.
TwoDrives(n) ==
  /\ drives = {[key |-> 1, id |-> 1], [key |-> 2, id |-> n + 3]}
  /\ files = {[key |-> k, id |-> k + 1, drive_key |-> 1, accessed_time |-> 0,
                secret |-> as_bytes(ASecret)] : k \in 1 .. n}
  /\ driveSeq = 2
  /\ fileSeq = n + 1
  /\ remoteDrives = {1, n + 3}
  /\ remoteFiles = 2 .. (n + 1)
  /\ remoteSeq = n + 3

Empty ==
  /\ drives = {} /\ files = {}
  /\ driveSeq = 0 /\ fileSeq = 0
  /\ remoteDrives = {} /\ remoteFiles = {}
  /\ remoteSeq = 0

TasksInit ==
  /\ gate = 0
  /\ pc = [t \in Tasks |-> "idle"]
  /\ op = [t \in Tasks |-> "none"]
  /\ key = [t \in Tasks |-> 0]
  /\ drive = [t \in Tasks |-> NoDrive]
  /\ handle = [t \in Tasks |-> 0]
  /\ res = [t \in Tasks |-> "pending"]
  /\ now = 0
  /\ permit = [t \in Tasks |-> FALSE]
  /\ acquired = 0
  /\ drive_calls = 0

PipeIdle ==
  /\ pphase = "idle" /\ content = <<>> /\ file = NoFile /\ object = <<>>
  /\ corrupt = {} /\ got = NoGot /\ sliced = NoSliced /\ trip = NoTrip
  /\ rechunked = NoRechunked /\ sent = NoSent

\* ChunkStreamCipher::new, no nonce derived yet
CipherIdle ==
  /\ stream_cipher = ASecret
  /\ nonces = {}

\* no upload has sent a body
NoTransfer == [at |-> "idle", size |-> 0, start |-> 0, idle |-> FALSE]

BodyIdle ==
  /\ body = <<>>
  /\ ltime = 0
  /\ tat = 0
  /\ transfer = NoTransfer
  /\ transfers = 0

\* no token cached: Mutex::new(None)
NoToken == [some |-> FALSE, token |-> 0, expires |-> 0]
\* no token request in flight
NoRequest == [now |-> 0, expires_in |-> 0, token |-> 0]

\* Authenticator::new
AuthIdle ==
  /\ access_token = NoToken
  /\ alock = 0
  /\ apc = [t \in Tasks |-> "idle"]
  /\ areq = [t \in Tasks |-> NoRequest]
  /\ aret = [t \in Tasks |-> 0]
  /\ token_requests = 0
  /\ aclock = 0
  /\ acalls = 0
  /\ token_until = 0

\* the statements of sql/migration1.sql: the tables of the schema
Migration1 == <<"drives", "files">>

\* a database no release has touched
NoConfig == [table |-> FALSE, rows |-> {}]
\* no run of migrate
NoRun == [at |-> "idle", version |-> 0, config |-> NoConfig, tables |-> {}, step |-> 0]

\* a migrated database with migrate not running
MigIdle ==
  /\ config = [table |-> TRUE, rows |-> {[key |-> MIGRATION_VERSION, value |-> 1]}]
  /\ tables = {Migration1[i] : i \in 1 .. Len(Migration1)}
  /\ mig = NoRun
  /\ mres = "none"
  /\ mruns = 0

\* the content-length header of a request: absent, not a number, or a number
Missing == [k |-> "missing", v |-> 0]
Invalid == [k |-> "invalid", v |-> 0]
Value(n) == [k |-> "value", v |-> n]

\* no POST / received
NoPost == [length |-> Missing, status |-> 0, size |-> 0]

FrontIdle == request = [t \in Tasks |-> NoPost]

SideIdle ==
  /\ BodyIdle
  /\ FrontIdle
  /\ AuthIdle
  /\ MigIdle

\* no throttle call
NoCall == [at |-> "idle", length |-> 0, old |-> 0, consume |-> 0]

\* BandwidthLimiter::new
ThrottleIdle ==
  /\ leftover = 0
  /\ consumed = 0
  /\ passed = 0
  /\ calls = 0
  /\ thr = [t \in Tasks |-> NoCall]

Fail(t, why) ==
  /\ pc' = [pc EXCEPT ![t] = "failed"]
  /\ res' = [res EXCEPT ![t] = why]

\* the awaits of the drive client at which a call is about to send its request
DriveCalls == {"create_drive", "create_file", "get_file", "delete_file"}

\* Drive::create_file, get_file, delete_file, create_drive:
\* self.request_limiter.until_ready().await takes one cell
AcquireToken(t) ==
  /\ pc[t] \in DriveCalls
  /\ ~permit[t]
  /\ permit' = [permit EXCEPT ![t] = TRUE]
  /\ acquired' = acquired + 1
  /\ UNCHANGED <<drives, files, driveSeq, fileSeq, remoteDrives, remoteFiles, remoteSeq,
                 gate, pc, op, key, drive, handle, res, now, drive_calls>>
  /\ UNCHANGED <<pipeVars, cipherVars, throttleVars, sideVars>>

\* time passes at the database
Tick ==
  /\ now < MaxClock
  /\ now' = now + 1
  /\ UNCHANGED <<drives, files, driveSeq, fileSeq, remoteDrives, remoteFiles, remoteSeq,
                 gate, pc, op, key, drive, handle, res, permit, acquired, drive_calls>>
  /\ UNCHANGED <<pipeVars, cipherVars, throttleVars, sideVars>>

\* the secrets gen_secret may draw: any key and any nonce base
AllSecrets == [key : 0 .. (NumKeys - 1), prefix : Byte, suffix : 0 .. (U32Mod - 1)]

\* ChunkStreamCipher::encrypt or decrypt of chunk `chunk_id` derives its nonce
ChunkNonce(chunk_id) ==
  /\ \A n \in nonces : n.chunk_id # chunk_id
  /\ nonces' = nonces \cup {[chunk_id |-> chunk_id,
                              nonce |-> get_chunk_nonce(stream_cipher, chunk_id)]}
  /\ UNCHANGED stream_cipher
  /\ UNCHANGED <<storeVars, pipeVars, throttleVars, sideVars>>

NonceNext == \E chunk_id \in 0 .. (U32Mod - 1) : ChunkNonce(chunk_id)

\* the lengths of the buffers of a request body: from empty to a whole
\* encrypted chunk
Lengths == 0 .. ENCRYPTED_CHUNK_SIZE

\* throttle: let mut old = self.leftover.load(Relaxed)
ThrottleLoad(t, length) ==
  /\ thr[t].at = "idle"
  /\ calls < MaxCalls
  /\ thr' = [thr EXCEPT ![t] = [at |-> "cas", length |-> length, old |-> leftover,
                                consume |-> 0]]
  /\ calls' = calls + 1
  /\ passed' = passed + length
  /\ UNCHANGED <<leftover, consumed>>
  /\ UNCHANGED <<storeVars, pipeVars, cipherVars, sideVars>>

\* throttle with a plain store in place of the compare-and-swap
ThrottleCas_store(t) ==
  /\ thr[t].at = "cas"
  /\ LET sum == thr[t].old + thr[t].length
     IN  /\ leftover' = sum % UNIT
         /\ thr' = [thr EXCEPT ![t].at = "wait", ![t].consume = (sum \div UNIT) % U32Mod]
  /\ UNCHANGED <<consumed, passed, calls>>
  /\ UNCHANGED <<storeVars, pipeVars, cipherVars, sideVars>>

\* throttle: one turn of the loop around leftover.compare_exchange_weak(old, new);
\* on failure old becomes the value read (a spurious failure reads old again
\* and changes nothing)
ThrottleCas(t) ==
  /\ thr[t].at = "cas"
  /\ LET sum == thr[t].old + thr[t].length
     IN  IF leftover = thr[t].old
         THEN /\ leftover' = sum % UNIT
              /\ thr' = [thr EXCEPT ![t].at = "wait",
                                    ![t].consume = (sum \div UNIT) % U32Mod]
         ELSE /\ thr' = [thr EXCEPT ![t].old = leftover]
              /\ UNCHANGED leftover
  /\ UNCHANGED <<consumed, passed, calls>>
  /\ UNCHANGED <<storeVars, pipeVars, cipherVars, sideVars>>

\* throttle: if consume is not zero, self.limiter.until_n_ready(consume).await
ThrottleWait(t) ==
  /\ thr[t].at = "wait"
  /\ consumed' = IF thr[t].consume > 0 THEN consumed + thr[t].consume ELSE consumed
  /\ thr' = [thr EXCEPT ![t] = NoCall]
  /\ UNCHANGED <<leftover, passed, calls>>
  /\ UNCHANGED <<storeVars, pipeVars, cipherVars, sideVars>>

ThrottleNext ==
  \E t \in Tasks :
    \/ \E length \in Lengths : ThrottleLoad(t, length)
    \/ ThrottleCas(t)
    \/ ThrottleWait(t)

\* a request arrives: POST /
StartUpload(t) ==
  /\ pc[t] = "idle"
  /\ op' = [op EXCEPT ![t] = "upload"]
  /\ pc' = [pc EXCEPT ![t] = "lock"]
  /\ UNCHANGED <<drives, files, driveSeq, fileSeq, remoteDrives, remoteFiles, remoteSeq,
                 gate, key, drive, handle, res>>
  /\ UNCHANGED <<now, permit, acquired, drive_calls>>
  /\ UNCHANGED <<pipeVars, cipherVars, throttleVars, sideVars>>

\* GET, HEAD or DELETE /{key}
StartKeyed(t, o, k) ==
  /\ pc[t] = "idle"
  /\ op' = [op EXCEPT ![t] = o]
  /\ key' = [key EXCEPT ![t] = k]
  /\ pc' = [pc EXCEPT ![t] = "row"]
  /\ UNCHANGED <<drives, files, driveSeq, fileSeq, remoteDrives, remoteFiles, remoteSeq,
                 gate, drive, handle, res>>
  /\ UNCHANGED <<now, permit, acquired, drive_calls>>
  /\ UNCHANGED <<pipeVars, cipherVars, throttleVars, sideVars>>

\* allocate_file without the mutex
AllocLock_ungated(t) ==
  /\ pc[t] = "lock"
  /\ gate' = t
  /\ pc' = [pc EXCEPT ![t] = "query"]
  /\ UNCHANGED <<drives, files, driveSeq, fileSeq, remoteDrives, remoteFiles, remoteSeq,
                 op, key, drive, handle, res>>
  /\ UNCHANGED <<now, permit, acquired, drive_calls>>
  /\ UNCHANGED <<pipeVars, cipherVars, throttleVars, sideVars>>

\* allocate_file: self.file_alloc_mutex.lock().await
AllocLock(t) ==
  /\ pc[t] = "lock"
  /\ gate = 0
  /\ gate' = t
  /\ pc' = [pc EXCEPT ![t] = "query"]
  /\ UNCHANGED <<drives, files, driveSeq, fileSeq, remoteDrives, remoteFiles, remoteSeq,
                 op, key, drive, handle, res>>
  /\ UNCHANGED <<now, permit, acquired, drive_calls>>
  /\ UNCHANGED <<pipeVars, cipherVars, throttleVars, sideVars>>

\* allocate_file: the least-files query returns a drive (Some) or none (None)
AllocQueryWith(t, found) ==
  /\ pc[t] = "query"
  /\ IF found = {}
     THEN /\ pc' = [pc EXCEPT ![t] = "create_drive"]
          /\ UNCHANGED <<gate, drive>>
     ELSE /\ \E d \in found : drive' = [drive EXCEPT ![t] = d]
          /\ gate' = 0
          /\ pc' = [pc EXCEPT ![t] = "create_file"]
  /\ UNCHANGED <<drives, files, driveSeq, fileSeq, remoteDrives, remoteFiles, remoteSeq,
                 op, key, handle, res>>
  /\ UNCHANGED <<now, permit, acquired, drive_calls>>
  /\ UNCHANGED <<pipeVars, cipherVars, throttleVars, sideVars>>

AllocQuery(t) ==
  AllocQueryWith(t, get_drive_by_least_files(drives, files, DRIVE_MAX_FILE_LIMIT))

\* allocate_file keeping the lock when the query fails
AllocQueryFail_holding(t) ==
  /\ pc[t] = "query"
  /\ Fail(t, "err_query")
  /\ UNCHANGED <<drives, files, driveSeq, fileSeq, remoteDrives, remoteFiles, remoteSeq,
                 gate, op, key, drive, handle>>
  /\ UNCHANGED <<now, permit, acquired, drive_calls>>
  /\ UNCHANGED <<pipeVars, cipherVars, throttleVars, sideVars>>

\* allocate_file: the query fails; `?` returns and drops the lock
AllocQueryFail(t) ==
  /\ pc[t] = "query"
  /\ gate' = 0
  /\ Fail(t, "err_query")
  /\ UNCHANGED <<drives, files, driveSeq, fileSeq, remoteDrives, remoteFiles, remoteSeq,
                 op, key, drive, handle>>
  /\ UNCHANGED <<now, permit, acquired, drive_calls>>
  /\ UNCHANGED <<pipeVars, cipherVars, throttleVars, sideVars>>

\* allocate_file: Drive::create_drive succeeds at the remote
AllocCreateDrive(t) ==
  /\ pc[t] = "create_drive"
  /\ permit[t]
  /\ remoteSeq' = remoteSeq + 1
  /\ remoteDrives' = remoteDrives \cup {remoteSeq + 1}
  /\ handle' = [handle EXCEPT ![t] = remoteSeq + 1]
  /\ pc' = [pc EXCEPT ![t] = "add_drive"]
  /\ UNCHANGED <<drives, files, driveSeq, fileSeq, remoteFiles, gate, op, key, drive, res>>
  /\ permit' = [permit EXCEPT ![t] = FALSE]
  /\ drive_calls' = drive_calls + 1
  /\ UNCHANGED <<now, acquired>>
  /\ UNCHANGED <<pipeVars, cipherVars, throttleVars, sideVars>>

AllocCreateDriveFail(t) ==
  /\ pc[t] = "create_drive"
  /\ permit[t]
  /\ gate' = 0
  /\ Fail(t, "err_create_drive")
  /\ UNCHANGED <<drives, files, driveSeq, fileSeq, remoteDrives, remoteFiles, remoteSeq,
                 op, key, drive, handle>>
  /\ permit' = [permit EXCEPT ![t] = FALSE]
  /\ drive_calls' = drive_calls + 1
  /\ UNCHANGED <<now, acquired>>
  /\ UNCHANGED <<pipeVars, cipherVars, throttleVars, sideVars>>

\* allocate_file: Db::add_drive inserts and commits the row; the lock is dropped
AllocAddDrive(t) ==
  /\ pc[t] = "add_drive"
  /\ LET row == [key |-> driveSeq + 1, id |-> handle[t]]
     IN  /\ drives' = drives \cup {row}
         /\ drive' = [drive EXCEPT ![t] = row]
  /\ driveSeq' = driveSeq + 1
  /\ gate' = 0
  /\ pc' = [pc EXCEPT ![t] = "create_file"]
  /\ UNCHANGED <<files, fileSeq, remoteDrives, remoteFiles, remoteSeq, op, key, handle, res>>
  /\ UNCHANGED <<now, permit, acquired, drive_calls>>
  /\ UNCHANGED <<pipeVars, cipherVars, throttleVars, sideVars>>

AllocAddDriveFail(t) ==
  /\ pc[t] = "add_drive"
  /\ gate' = 0
  /\ Fail(t, "err_add_drive")
  /\ UNCHANGED <<drives, files, driveSeq, fileSeq, remoteDrives, remoteFiles, remoteSeq,
                 op, key, drive, handle>>
  /\ UNCHANGED <<now, permit, acquired, drive_calls>>
  /\ UNCHANGED <<pipeVars, cipherVars, throttleVars, sideVars>>

\* upload: Drive::create_file completes; the remote answers with the file id
UploadCreateFile(t) ==
  /\ pc[t] = "create_file"
  /\ permit[t]
  /\ remoteSeq' = remoteSeq + 1
  /\ remoteFiles' = remoteFiles \cup {remoteSeq + 1}
  /\ handle' = [handle EXCEPT ![t] = remoteSeq + 1]
  /\ pc' = [pc EXCEPT ![t] = "add_file"]
  /\ UNCHANGED <<drives, files, driveSeq, fileSeq, remoteDrives, gate, op, key, drive, res>>
  /\ permit' = [permit EXCEPT ![t] = FALSE]
  /\ drive_calls' = drive_calls + 1
  /\ UNCHANGED <<now, acquired>>
  /\ UNCHANGED <<pipeVars, cipherVars, throttleVars, sideVars>>

\* upload going on to add_file although create_file failed
UploadCreateFileFail_ignored(t) ==
  /\ pc[t] = "create_file"
  /\ permit[t]
  /\ handle' = [handle EXCEPT ![t] = remoteSeq + 1]
  /\ pc' = [pc EXCEPT ![t] = "add_file"]
  /\ UNCHANGED <<drives, files, driveSeq, fileSeq, remoteDrives, remoteFiles, remoteSeq,
                 gate, op, key, drive, res>>
  /\ permit' = [permit EXCEPT ![t] = FALSE]
  /\ drive_calls' = drive_calls + 1
  /\ UNCHANGED <<now, acquired>>
  /\ UNCHANGED <<pipeVars, cipherVars, throttleVars, sideVars>>

UploadCreateFileFail(t) ==
  /\ pc[t] = "create_file"
  /\ permit[t]
  /\ Fail(t, "err_create_file")
  /\ UNCHANGED <<drives, files, driveSeq, fileSeq, remoteDrives, remoteFiles, remoteSeq,
                 gate, op, key, drive, handle>>
  /\ permit' = [permit EXCEPT ![t] = FALSE]
  /\ drive_calls' = drive_calls + 1
  /\ UNCHANGED <<now, acquired>>
  /\ UNCHANGED <<pipeVars, cipherVars, throttleVars, sideVars>>

\* upload: Db::add_file inserts and commits the file row
UploadAddFile(t) ==
  /\ pc[t] = "add_file"
  /\ files' = files \cup {[key |-> fileSeq + 1, id |-> handle[t], drive_key |-> drive[t].key,
                            accessed_time |-> now, secret |-> as_bytes(ASecret)]}
  /\ fileSeq' = fileSeq + 1
  /\ key' = [key EXCEPT ![t] = fileSeq + 1]
  /\ pc' = [pc EXCEPT ![t] = "done"]
  /\ res' = [res EXCEPT ![t] = "ok"]
  /\ UNCHANGED <<drives, driveSeq, remoteDrives, remoteFiles, remoteSeq, gate, op, drive,
                 handle>>
  /\ UNCHANGED <<now, permit, acquired, drive_calls>>
  /\ UNCHANGED <<pipeVars, cipherVars, throttleVars, sideVars>>

UploadAddFileFail(t) ==
  /\ pc[t] = "add_file"
  /\ Fail(t, "err_add_file")
  /\ UNCHANGED <<drives, files, driveSeq, fileSeq, remoteDrives, remoteFiles, remoteSeq,
                 gate, op, key, drive, handle>>
  /\ UNCHANGED <<now, permit, acquired, drive_calls>>
  /\ UNCHANGED <<pipeVars, cipherVars, throttleVars, sideVars>>

\* the row of table files with a key, as a set (empty for None)
file_by_key(fs, k) == {f \in fs : f.key = k}

\* get_file_by_key updating accessed_time whatever update_atime says
get_file_by_key_touching(fs, k, update_atime, time) ==
  {IF f.key = k THEN [f EXCEPT !.accessed_time = time] ELSE f : f \in fs}

\* DbExecutor::get_file_by_key: the table after the statement (update ... set
\* accessed_time = now() where key = $1, or a plain select)
get_file_by_key(fs, k, update_atime, time) ==
  IF update_atime
  THEN {IF f.key = k THEN [f EXCEPT !.accessed_time = time] ELSE f : f \in fs}
  ELSE fs

\* get_file_by_key of a get that goes on to the remote without a row
LookupRow_probing(t) ==
  /\ pc[t] = "row"
  /\ op[t] \in {"get", "get_info"}
  /\ files' = get_file_by_key(files, key[t], op[t] = "get", now)
  /\ IF file_by_key(files, key[t]) = {}
     THEN /\ pc' = [pc EXCEPT ![t] = IF op[t] = "get" THEN "get_file" ELSE "done"]
          /\ res' = [res EXCEPT ![t] = IF op[t] = "get" THEN @ ELSE "none"]
          /\ UNCHANGED handle
     ELSE \E f \in file_by_key(files, key[t]) :
            IF op[t] = "get"
            THEN IF secret_of(f.secret).ok
                 THEN /\ handle' = [handle EXCEPT ![t] = f.id]
                      /\ pc' = [pc EXCEPT ![t] = "get_file"]
                      /\ UNCHANGED res
                 ELSE /\ Fail(t, "SecretInvalid")
                      /\ UNCHANGED handle
            ELSE /\ handle' = [handle EXCEPT ![t] = f.id]
                 /\ pc' = [pc EXCEPT ![t] = "done"]
                 /\ res' = [res EXCEPT ![t] = "ok"]
  /\ UNCHANGED <<drives, driveSeq, fileSeq, remoteDrives, remoteFiles, remoteSeq,
                 gate, op, key, drive>>
  /\ UNCHANGED <<now, permit, acquired, drive_calls>>
  /\ UNCHANGED <<pipeVars, cipherVars, throttleVars, sideVars>>

\* get: Db::get_file_by_key(key, true), then the cipher is made of the row's
\* secret; get_info: Db::get_file_by_key(key, false)
LookupRow(t) ==
  /\ pc[t] = "row"
  /\ op[t] \in {"get", "get_info"}
  /\ files' = get_file_by_key(files, key[t], op[t] = "get", now)
  /\ IF file_by_key(files, key[t]) = {}
     THEN /\ pc' = [pc EXCEPT ![t] = "done"]
          /\ res' = [res EXCEPT ![t] = "none"]
          /\ UNCHANGED handle
     ELSE \E f \in file_by_key(files, key[t]) :
            IF op[t] = "get"
            THEN IF secret_of(f.secret).ok
                 THEN /\ handle' = [handle EXCEPT ![t] = f.id]
                      /\ pc' = [pc EXCEPT ![t] = "get_file"]
                      /\ UNCHANGED res
                 ELSE /\ Fail(t, "SecretInvalid")
                      /\ UNCHANGED handle
            ELSE /\ handle' = [handle EXCEPT ![t] = f.id]
                 /\ pc' = [pc EXCEPT ![t] = "done"]
                 /\ res' = [res EXCEPT ![t] = "ok"]
  /\ UNCHANGED <<drives, driveSeq, fileSeq, remoteDrives, remoteFiles, remoteSeq,
                 gate, op, key, drive>>
  /\ UNCHANGED <<now, permit, acquired, drive_calls>>
  /\ UNCHANGED <<pipeVars, cipherVars, throttleVars, sideVars>>

\* get: Drive::get_file answers iff the object is at the remote
GetFile(t) ==
  /\ pc[t] = "get_file"
  /\ permit[t]
  /\ IF handle[t] \in remoteFiles
     THEN /\ pc' = [pc EXCEPT ![t] = "done"]
          /\ res' = [res EXCEPT ![t] = "ok"]
     ELSE Fail(t, "err_get_file")
  /\ UNCHANGED <<drives, files, driveSeq, fileSeq, remoteDrives, remoteFiles, remoteSeq,
                 gate, op, key, drive, handle>>
  /\ permit' = [permit EXCEPT ![t] = FALSE]
  /\ drive_calls' = drive_calls + 1
  /\ UNCHANGED <<now, acquired>>
  /\ UNCHANGED <<pipeVars, cipherVars, throttleVars, sideVars>>

\* delete_file_by_key returning the row without removing it
DeleteRow_keeping(t) ==
  /\ pc[t] = "row"
  /\ op[t] = "delete"
  /\ IF file_by_key(files, key[t]) = {}
     THEN /\ pc' = [pc EXCEPT ![t] = "done"]
          /\ res' = [res EXCEPT ![t] = "none"]
          /\ UNCHANGED handle
     ELSE /\ \E f \in file_by_key(files, key[t]) :
               handle' = [handle EXCEPT ![t] = f.id]
          /\ pc' = [pc EXCEPT ![t] = "delete_file"]
          /\ UNCHANGED res
  /\ UNCHANGED <<drives, files, driveSeq, fileSeq, remoteDrives, remoteFiles, remoteSeq,
                 gate, op, key, drive>>
  /\ UNCHANGED <<now, permit, acquired, drive_calls>>
  /\ UNCHANGED <<pipeVars, cipherVars, throttleVars, sideVars>>

\* delete: Db::delete_file_by_key deletes the row and commits
DeleteRow(t) ==
  /\ pc[t] = "row"
  /\ op[t] = "delete"
  /\ IF file_by_key(files, key[t]) = {}
     THEN /\ pc' = [pc EXCEPT ![t] = "done"]
          /\ res' = [res EXCEPT ![t] = "none"]
          /\ UNCHANGED <<files, handle>>
     ELSE /\ \E f \in file_by_key(files, key[t]) :
               /\ files' = files \ {f}
               /\ handle' = [handle EXCEPT ![t] = f.id]
          /\ pc' = [pc EXCEPT ![t] = "delete_file"]
          /\ UNCHANGED res
  /\ UNCHANGED <<drives, driveSeq, fileSeq, remoteDrives, remoteFiles, remoteSeq,
                 gate, op, key, drive>>
  /\ UNCHANGED <<now, permit, acquired, drive_calls>>
  /\ UNCHANGED <<pipeVars, cipherVars, throttleVars, sideVars>>

\* any of the three: the database operation fails, nothing is committed
RowFail(t) ==
  /\ pc[t] = "row"
  /\ Fail(t, "err_row")
  /\ UNCHANGED <<drives, files, driveSeq, fileSeq, remoteDrives, remoteFiles, remoteSeq,
                 gate, op, key, drive, handle>>
  /\ UNCHANGED <<now, permit, acquired, drive_calls>>
  /\ UNCHANGED <<pipeVars, cipherVars, throttleVars, sideVars>>

\* delete_file sending its request without waiting for the request limiter
DeleteFile_unpaced(t) ==
  /\ pc[t] = "delete_file"
  /\ remoteFiles' = remoteFiles \ {handle[t]}
  /\ pc' = [pc EXCEPT ![t] = "done"]
  /\ res' = [res EXCEPT ![t] = "ok"]
  /\ drive_calls' = drive_calls + 1
  /\ UNCHANGED <<drives, files, driveSeq, fileSeq, remoteDrives, remoteSeq,
                 gate, op, key, drive, handle, now, permit, acquired>>
  /\ UNCHANGED <<pipeVars, cipherVars, throttleVars, sideVars>>

\* delete: Drive::delete_file succeeds at the remote
DeleteFile(t) ==
  /\ pc[t] = "delete_file"
  /\ permit[t]
  /\ remoteFiles' = remoteFiles \ {handle[t]}
  /\ pc' = [pc EXCEPT ![t] = "done"]
  /\ res' = [res EXCEPT ![t] = "ok"]
  /\ UNCHANGED <<drives, files, driveSeq, fileSeq, remoteDrives, remoteSeq,
                 gate, op, key, drive, handle>>
  /\ permit' = [permit EXCEPT ![t] = FALSE]
  /\ drive_calls' = drive_calls + 1
  /\ UNCHANGED <<now, acquired>>
  /\ UNCHANGED <<pipeVars, cipherVars, throttleVars, sideVars>>

\* a failed remote delete that puts the row back
DeleteFileFail_restoring(t) ==
  /\ pc[t] = "delete_file"
  /\ permit[t]
  /\ files' = files \cup {[key |-> key[t], id |-> handle[t], drive_key |-> 1,
                            accessed_time |-> now]}
  /\ Fail(t, "err_delete_file")
  /\ UNCHANGED <<drives, driveSeq, fileSeq, remoteDrives, remoteFiles, remoteSeq,
                 gate, op, key, drive, handle>>
  /\ permit' = [permit EXCEPT ![t] = FALSE]
  /\ drive_calls' = drive_calls + 1
  /\ UNCHANGED <<now, acquired>>
  /\ UNCHANGED <<pipeVars, cipherVars, throttleVars, sideVars>>

\* delete: Drive::delete_file fails; `?` returns the error
DeleteFileFail(t) ==
  /\ pc[t] = "delete_file"
  /\ permit[t]
  /\ Fail(t, "err_delete_file")
  /\ UNCHANGED <<drives, files, driveSeq, fileSeq, remoteDrives, remoteFiles, remoteSeq,
                 gate, op, key, drive, handle>>
  /\ permit' = [permit EXCEPT ![t] = FALSE]
  /\ drive_calls' = drive_calls + 1
  /\ UNCHANGED <<now, acquired>>
  /\ UNCHANGED <<pipeVars, cipherVars, throttleVars, sideVars>>

\* the keys a request may name: those handed out so far and one never used
Keys == 1 .. (DRIVE_MAX_FILE_LIMIT + 2)

UploadNext ==
  \E t \in Tasks :
    \/ StartUpload(t)
    \/ AllocLock(t)
    \/ AllocQuery(t)
    \/ AllocQueryFail(t)
    \/ AllocCreateDrive(t)
    \/ AllocCreateDriveFail(t)
    \/ AllocAddDrive(t)
    \/ AllocAddDriveFail(t)
    \/ UploadCreateFile(t)
    \/ UploadCreateFileFail(t)
    \/ UploadAddFile(t)
    \/ UploadAddFileFail(t)
    \/ AcquireToken(t)

KeyedNext ==
  \E t \in Tasks :
    \/ \E o \in {"get", "get_info", "delete"}, k \in Keys : StartKeyed(t, o, k)
    \/ LookupRow(t)
    \/ GetFile(t)
    \/ DeleteRow(t)
    \/ RowFail(t)
    \/ DeleteFile(t)
    \/ DeleteFileFail(t)

StoreNext == UploadNext \/ KeyedNext

\* gets and infos while time passes
AccessNext ==
  \/ \E t \in Tasks :
       \/ \E o \in {"get", "get_info"}, k \in Keys : StartKeyed(t, o, k)
       \/ LookupRow(t)
       \/ RowFail(t)
       \/ AcquireToken(t)
       \/ GetFile(t)
  \/ Tick

StoreInit ==
  /\ \/ Empty
     \/ OneDrive(DRIVE_MAX_FILE_LIMIT)
     \/ TwoDrives(DRIVE_MAX_FILE_LIMIT)
  /\ TasksInit
  /\ PipeIdle
  /\ CipherIdle
  /\ ThrottleIdle
  /\ SideIdle

\* two files stored, both last accessed at time 0
AccessInit ==
  /\ OneDrive(DRIVE_MAX_FILE_LIMIT + 1)
  /\ TasksInit
  /\ PipeIdle
  /\ CipherIdle
  /\ ThrottleIdle
  /\ SideIdle

\* a stored secret as something other than upload may have left it: a byte
\* short, whole, or a byte long
Resized(bytes, d) ==
  IF d < 0 THEN SubSeq(bytes, 1, Len(bytes) - 1)
  ELSE IF d > 0 THEN bytes \o <<0>> ELSE bytes

\* two files stored, the secret of the first whole and that of the second of
\* any of these lengths
SecretInit ==
  /\ \E d \in {0 - 1, 0, 1} :
       files = {[key |-> k, id |-> k + 1, drive_key |-> 1, accessed_time |-> 0,
                 secret |-> Resized(as_bytes(ASecret), IF k = 1 THEN 0 ELSE d)]
                  : k \in 1 .. (DRIVE_MAX_FILE_LIMIT + 1)}
  /\ drives = {[key |-> 1, id |-> 1]}
  /\ driveSeq = 1
  /\ fileSeq = DRIVE_MAX_FILE_LIMIT + 1
  /\ remoteDrives = {1}
  /\ remoteFiles = 2 .. (DRIVE_MAX_FILE_LIMIT + 2)
  /\ remoteSeq = DRIVE_MAX_FILE_LIMIT + 2
  /\ TasksInit
  /\ PipeIdle
  /\ CipherIdle
  /\ ThrottleIdle
  /\ SideIdle

\* gets and infos of stored files
SecretNext ==
  \E t \in Tasks :
    \/ \E o \in {"get", "get_info"}, k \in Keys : StartKeyed(t, o, k)
    \/ LookupRow(t)
    \/ RowFail(t)
    \/ AcquireToken(t)
    \/ GetFile(t)

\* concurrent gets and infos of records whose secrets may be damaged
SpecSecret == SecretInit /\ [][SecretNext]_vars

\* the states of a burst: no drive within the limit exists
BurstInit ==
  /\ \/ Empty
     \/ OneDrive(DRIVE_MAX_FILE_LIMIT + 1)
  /\ TasksInit
  /\ PipeIdle
  /\ CipherIdle
  /\ ThrottleIdle
  /\ SideIdle

PipeInit ==
  /\ PipeFresh
  /\ Empty
  /\ TasksInit
  /\ CipherIdle
  /\ ThrottleIdle
  /\ SideIdle

\* concurrent uploads, gets, infos and deletes
Spec == StoreInit /\ [][StoreNext]_vars

\* concurrent gets and infos of stored files while time passes
SpecAccess == AccessInit /\ [][AccessNext]_vars

NonceInit ==
  /\ stream_cipher \in AllSecrets
  /\ nonces = {}
  /\ Empty
  /\ TasksInit
  /\ PipeIdle
  /\ ThrottleIdle
  /\ SideIdle

\* one cipher deriving the nonces of its chunks
SpecNonce == NonceInit /\ [][NonceNext]_vars

ThrottleInit ==
  /\ ThrottleIdle
  /\ Empty
  /\ TasksInit
  /\ PipeIdle
  /\ CipherIdle
  /\ SideIdle

\* concurrent body streams passing their buffers through the upload limiter
SpecThrottle == ThrottleInit /\ [][ThrottleNext]_vars

\* a burst of concurrent uploads
SpecBurst == BurstInit /\ [][UploadNext]_vars

\* ------------------------------------------------------------ the HTTP front end
\* the content-length headers a POST / may carry
ContentLengths == {Missing, Invalid} \cup {Value(n) : n \in 0 .. (MaxUploadSize + 1)}

\* warp's body::content_length_limit(max_upload_size) (server.rs:70): a request
\* without a content-length it can read is rejected with LengthRequired, one
\* above the limit with PayloadTooLarge
content_length_limit(length, limit) ==
  IF length.k # "value" THEN "LengthRequired"
  ELSE IF length.v > limit THEN "PayloadTooLarge"
  ELSE "pass"

\* header("content-length") read as a u64
header_content_length_u64(length) ==
  IF length.k = "missing" THEN [rejection |-> "MissingHeader", size |-> 0]
  ELSE IF length.k = "invalid" THEN [rejection |-> "InvalidHeader", size |-> 0]
  ELSE [rejection |-> "pass", size |-> length.v]

\* warp's header("content-length") with the handler's type, size: NonZeroU64
\* (server.rs:72, 179): NonZeroU64::from_str fails on 0
header_content_length(length) ==
  IF length.k = "missing" THEN [rejection |-> "MissingHeader", size |-> 0]
  ELSE IF length.k = "invalid" \/ length.v = 0
       THEN [rejection |-> "InvalidHeader", size |-> 0]
       ELSE [rejection |-> "pass", size |-> length.v]

\* recover: the status of a rejection (server.rs:243-276)
recover(rejection) ==
  CASE rejection \in {"InvalidHeader", "MissingHeader", "LengthRequired"} -> 400
    [] rejection = "PayloadTooLarge" -> 413
    [] OTHER -> 500

\* the route POST /: the filters in their order, then the handler upload_file;
\* [called, size, status], status 0 while the handler runs
post_root(length) ==
  LET limit  == content_length_limit(length, MaxUploadSize)
      header == header_content_length(length)
  IN  IF limit # "pass" THEN [called |-> FALSE, size |-> 0, status |-> recover(limit)]
      ELSE IF header.rejection # "pass"
           THEN [called |-> FALSE, size |-> 0, status |-> recover(header.rejection)]
           ELSE [called |-> TRUE, size |-> header.size, status |-> 0]

\* POST / arrives with a content-length header: it is rejected, or upload_file
\* calls Store::upload(size, ..), which enters allocate_file
Post(t, length) ==
  /\ pc[t] = "idle"
  /\ LET r == post_root(length)
     IN  /\ request' = [request EXCEPT ![t] = [length |-> length, status |-> r.status,
                                               size |-> r.size]]
         /\ IF r.called
            THEN /\ op' = [op EXCEPT ![t] = "upload"]
                 /\ pc' = [pc EXCEPT ![t] = "lock"]
                 /\ UNCHANGED res
            ELSE /\ op' = [op EXCEPT ![t] = "post"]
                 /\ pc' = [pc EXCEPT ![t] = "done"]
                 /\ res' = [res EXCEPT ![t] = "rejected"]
  /\ UNCHANGED <<drives, files, driveSeq, fileSeq, remoteDrives, remoteFiles, remoteSeq,
                 gate, key, drive, handle>>
  /\ UNCHANGED <<now, permit, acquired, drive_calls>>
  /\ UNCHANGED <<pipeVars, cipherVars, throttleVars, bodyVars, authVars, migVars>>

FrontNext ==
  \E t \in Tasks :
    \/ \E length \in ContentLengths : Post(t, length)
    \/ AllocLock(t)
    \/ AllocQuery(t)
    \/ AllocQueryFail(t)
    \/ AllocCreateDrive(t)
    \/ AllocCreateDriveFail(t)
    \/ AllocAddDrive(t)
    \/ AllocAddDriveFail(t)
    \/ UploadCreateFile(t)
    \/ UploadCreateFileFail(t)
    \/ UploadAddFile(t)
    \/ UploadAddFileFail(t)
    \/ AcquireToken(t)

\* uploads through the HTTP surface
SpecFront == BurstInit /\ [][FrontNext]_vars

\* the calls of the task holding the allocation gate return: its database
\* queries answer, the request limiter lets its drive call through, the remote
\* answers
HolderStep(t) ==
  \/ AllocQuery(t) \/ AllocQueryFail(t)
  \/ AcquireToken(t) /\ gate = t
  \/ AllocCreateDrive(t) \/ AllocCreateDriveFail(t)
  \/ AllocAddDrive(t) \/ AllocAddDriveFail(t)

\* the burst of uploads with the holder's calls returning and the mutex
\* (tokio::sync::Mutex, first in first out) granting every waiter in turn
SpecGate ==
  /\ BurstInit
  /\ [][UploadNext]_vars
  /\ \A t \in Tasks : WF_vars(HolderStep(t)) /\ SF_vars(AllocLock(t))

\* one file through the byte pipeline
SpecPipe == PipeInit /\ [][PipeNext]_vars

\* the content of scenarios S1 and S2: byte i of the file is i mod 256
Ramp(n) == [i \in 1 .. n |-> (i - 1) % ByteMod]

\* as PipeFresh, for files of the scenarios' content up to three chunks long
FetchFresh ==
  /\ pphase = "new"
  /\ content \in {Ramp(n) : n \in 0 .. (MaxLen + 1)}
  /\ file = NoFile
  /\ object = <<>>
  /\ corrupt = {}
  /\ got = NoGot
  /\ sliced = NoSliced
  /\ trip = NoTrip
  /\ rechunked = NoRechunked
  /\ sent = NoSent

FetchInit ==
  /\ FetchFresh
  /\ Empty
  /\ TasksInit
  /\ CipherIdle
  /\ ThrottleIdle
  /\ SideIdle

\* one file uploaded, then downloaded from a remote free in its answers
SpecFetch == FetchInit /\ [][FetchNext]_vars

SendInit ==
  /\ PipeFresh
  /\ Empty
  /\ TasksInit
  /\ CipherIdle
  /\ ThrottleIdle
  /\ SideIdle

\* the upload side of one transfer: rechunking and the request body
SpecSend == SendInit /\ [][SendNext]_vars

\* ------------------------------------------------ the upload limiter in time
\* This view follows one request body at a time through throttle_stream with
\* the sizes of the program itself: what the limiter does to a body turns on
\* the tag and the framing being tiny next to the limiter's unit.

\* 1024 * 1024, the unit of Drive.upload_limiter
UNIT_BYTES == 1048576
\* CHUNK_SIZE of the program
CHUNK_BYTES == 1048576
\* ChunkStreamCipher::TAG_SIZE of the program
TAG_BYTES == 16

\* RateLimit::from_str("1/1"): Quota::with_period(1 s / 1).allow_burst(1)
Quota == [burst |-> 1, period |-> 1]

\* create_file: the length of prefix (two part headers around the metadata of
\* a 20-character name and a drive id) and of suffix (the closing boundary)
FrameLens == [prefix |-> 303, suffix |-> 56]

\* the upload of scenario S4
S4Size == 10 * UNIT_BYTES

\* the sizes uploaded: one byte, most of a chunk, one chunk, the ten of S4
UploadSizes ==
  {1, UNIT_BYTES - 2 * TAG_BYTES - 2 * FrameLens.prefix - FrameLens.suffix,
   CHUNK_BYTES, S4Size}

RECURSIVE cipher_lengths(_)
\* Store::upload: the lengths of the chunks of
\* encrypt_stream(chunk_stream(size, content, CHUNK_SIZE), cipher, 0)
cipher_lengths(size) ==
  IF size = 0 THEN <<>>
  ELSE LET read == Min(size, CHUNK_BYTES)
       IN  <<read + TAG_BYTES>> \o cipher_lengths(size - read)

\* create_file: concat = once(prefix).chain(content).chain(once(suffix))
body_lengths(size) ==
  <<FrameLens.prefix>> \o cipher_lengths(size) \o <<FrameLens.suffix>>

\* Store::upload reaches create_file: the body stream is built and wrapped in
\* throttle_stream
BodyStart(size) ==
  /\ transfer.at # "body"
  /\ transfers < MaxTransfers
  /\ body' = body_lengths(size)
  /\ transfer' = [at |-> "body", size |-> size, start |-> ltime, idle |-> tat <= ltime]
  /\ transfers' = transfers + 1
  /\ UNCHANGED <<ltime, tat>>
  /\ UNCHANGED <<storeVars, pipeVars, cipherVars, throttleVars, authVars, migVars,
                 frontVars>>

\* throttle_stream, one poll by the only stream there is: the next buffer of
\* the body, throttle(&buffer) (its exchange succeeds at once, no other call
\* being in progress), then the buffer is yielded.
\* limiter.until_n_ready(consume) answers InsufficientCapacity at once when
\* consume is more than the burst, and that answer is dropped (let _ =);
\* otherwise it sleeps until the cells are due.
BodyPoll ==
  /\ transfer.at = "body"
  /\ body # <<>>
  /\ LET length == Head(body)
         sum == leftover + length
         consume == sum \div UNIT_BYTES
         t == Quota.period \div Quota.burst
         admitted == consume > 0 /\ consume <= Quota.burst
         due == tat + (consume - Quota.burst) * t
         ready == IF admitted /\ due > ltime THEN due ELSE ltime
     IN  /\ ready <= MaxTime
         /\ leftover' = sum % UNIT_BYTES
         /\ consumed' = consumed + consume
         /\ passed' = passed + length
         /\ ltime' = ready
         /\ tat' = IF admitted
                   THEN (IF tat > ready THEN tat ELSE ready) + consume * t
                   ELSE tat
  /\ body' = Tail(body)
  /\ transfer' = IF Len(body) = 1 THEN [transfer EXCEPT !.at = "done"] ELSE transfer
  /\ UNCHANGED <<calls, thr, transfers>>
  /\ UNCHANGED <<storeVars, pipeVars, cipherVars, authVars, migVars,
                 frontVars>>

\* time passes: the source of the body is slow, or nothing is being uploaded
BodyTick ==
  /\ ltime < MaxTime
  /\ ltime' = ltime + 1
  /\ UNCHANGED <<body, tat, transfer, transfers>>
  /\ UNCHANGED <<storeVars, pipeVars, cipherVars, throttleVars, authVars, migVars,
                 frontVars>>

BodyNext ==
  \/ \E size \in UploadSizes : BodyStart(size)
  \/ BodyPoll
  \/ BodyTick

\* Drive::new: both limiters fresh
BodyInit ==
  /\ MigIdle
  /\ BodyIdle
  /\ FrontIdle
  /\ AuthIdle
  /\ ThrottleIdle
  /\ Empty
  /\ TasksInit
  /\ PipeIdle
  /\ CipherIdle

\* uploads one after the other through the upload limiter
SpecBody == BodyInit /\ [][BodyNext]_vars

\* ------------------------------------------------------- the authenticator
\* the lifetimes the provider may grant
ExpiresIn == 0 .. MaxExpiresIn

\* request, with expires_in taken as it comes
token_expiry_unclamped(instant, expires_in) == instant + expires_in

\* Authenticator::request:
\* now + Duration::from_secs(expires_in.saturating_sub(10).max(10))
token_expiry(instant, expires_in) ==
  LET early == saturating_sub(expires_in, EARLY_REFRESH)
  IN  instant + (IF early > EARLY_REFRESH THEN early ELSE EARLY_REFRESH)

\* a task calls Authenticator::access_token and awaits the lock
AuthCall(t) ==
  /\ apc[t] \in {"idle", "done", "failed"}
  /\ acalls < MaxAuthCalls
  /\ acalls' = acalls + 1
  /\ apc' = [apc EXCEPT ![t] = "lock"]
  /\ aret' = [aret EXCEPT ![t] = 0]
  /\ UNCHANGED <<access_token, alock, areq, token_requests, aclock, token_until>>
  /\ UNCHANGED <<storeVars, pipeVars, cipherVars, throttleVars, bodyVars, migVars,
                 frontVars>>

\* what access_token does once it is let in: the cached token is returned
\* unless it is missing or expired, in which case request() reads the clock and
\* sends the token request, the lock still held
AuthProceed(t) ==
  LET expired == IF access_token.some THEN access_token.expires <= aclock ELSE TRUE
  IN  IF expired
      THEN /\ alock' = t
           /\ apc' = [apc EXCEPT ![t] = "request"]
           /\ \E expires_in \in ExpiresIn :
                areq' = [areq EXCEPT ![t] = [now |-> aclock, expires_in |-> expires_in,
                                             token |-> token_requests + 1]]
           /\ token_requests' = token_requests + 1
           /\ UNCHANGED <<access_token, aret>>
      ELSE /\ apc' = [apc EXCEPT ![t] = "done"]
           /\ aret' = [aret EXCEPT ![t] = access_token.token]
           /\ UNCHANGED <<access_token, alock, areq, token_requests>>

\* access_token with no lock around the cache
AuthEnter_unlocked(t) ==
  /\ apc[t] = "lock"
  /\ AuthProceed(t)
  /\ UNCHANGED <<aclock, acalls, token_until>>
  /\ UNCHANGED <<storeVars, pipeVars, cipherVars, throttleVars, bodyVars, migVars,
                 frontVars>>

\* access_token: self.access_token.lock().await is granted, then the check of
\* the cache
AuthEnter(t) ==
  /\ apc[t] = "lock"
  /\ alock = 0
  /\ AuthProceed(t)
  /\ UNCHANGED <<aclock, acalls, token_until>>
  /\ UNCHANGED <<storeVars, pipeVars, cipherVars, throttleVars, bodyVars, migVars,
                 frontVars>>

\* request: the provider answers with a token and its lifetime; the cache is
\* set, the token returned and the guard dropped
AuthResponse(t) ==
  /\ apc[t] = "request"
  /\ access_token' = [some |-> TRUE, token |-> areq[t].token,
                      expires |-> token_expiry(areq[t].now, areq[t].expires_in)]
  /\ token_until' = areq[t].now + areq[t].expires_in
  /\ aret' = [aret EXCEPT ![t] = areq[t].token]
  /\ apc' = [apc EXCEPT ![t] = "done"]
  /\ areq' = [areq EXCEPT ![t] = NoRequest]
  /\ alock' = IF alock = t THEN 0 ELSE alock
  /\ UNCHANGED <<token_requests, aclock, acalls>>
  /\ UNCHANGED <<storeVars, pipeVars, cipherVars, throttleVars, bodyVars, migVars,
                 frontVars>>

\* a failed token request that empties the cache
AuthResponseFail_clearing(t) ==
  /\ apc[t] = "request"
  /\ apc' = [apc EXCEPT ![t] = "failed"]
  /\ areq' = [areq EXCEPT ![t] = NoRequest]
  /\ alock' = IF alock = t THEN 0 ELSE alock
  /\ access_token' = NoToken
  /\ UNCHANGED <<aret, token_requests, aclock, acalls, token_until>>
  /\ UNCHANGED <<storeVars, pipeVars, cipherVars, throttleVars, bodyVars, migVars,
                 frontVars>>

\* request: the token request fails (transport, status or body); the error
\* leaves through ?, the guard is dropped and the cache is as it was
AuthResponseFail(t) ==
  /\ apc[t] = "request"
  /\ apc' = [apc EXCEPT ![t] = "failed"]
  /\ areq' = [areq EXCEPT ![t] = NoRequest]
  /\ alock' = IF alock = t THEN 0 ELSE alock
  /\ UNCHANGED <<access_token, aret, token_requests, aclock, acalls, token_until>>
  /\ UNCHANGED <<storeVars, pipeVars, cipherVars, throttleVars, bodyVars, migVars,
                 frontVars>>

\* time passes
AuthTick ==
  /\ aclock < MaxAuthClock
  /\ aclock' = aclock + 1
  /\ UNCHANGED <<access_token, alock, apc, areq, aret, token_requests, acalls,
                 token_until>>
  /\ UNCHANGED <<storeVars, pipeVars, cipherVars, throttleVars, bodyVars, migVars,
                 frontVars>>

AuthNext ==
  \/ \E t \in Tasks :
       \/ AuthCall(t)
       \/ AuthEnter(t)
       \/ AuthResponse(t)
       \/ AuthResponseFail(t)
  \/ AuthTick

AuthInit ==
  /\ MigIdle
  /\ AuthIdle
  /\ BodyIdle
  /\ FrontIdle
  /\ ThrottleIdle
  /\ Empty
  /\ TasksInit
  /\ PipeIdle
  /\ CipherIdle

\* concurrent callers of the authenticator while time passes
SpecAuth == AuthInit /\ [][AuthNext]_vars

\* ------------------------------------------------------------ the migrations
\* the tables a database at migration version v carries: those of migration 1
\* from version 1 on, and one more per later version of a later release
TablesAt(v) ==
  (IF v >= 1 THEN {Migration1[i] : i \in 1 .. Len(Migration1)} ELSE {})
    \cup {"later"} \X (2 .. v)

\* get_config: select value from config where key = $1
get_config(c, k) ==
  IF \E r \in c.rows : r.key = k
  THEN [some |-> TRUE, value |-> (CHOOSE r \in c.rows : r.key = k).value]
  ELSE [some |-> FALSE, value |-> 0]

\* set_config: insert into config .. on conflict (key) do update set value = $2
set_config(c, k, v) ==
  [c EXCEPT !.rows = {r \in c.rows : r.key # k} \cup {[key |-> k, value |-> v]}]

\* the databases migrate may find: untouched, or left at some version by this
\* or another release
MigFresh ==
  /\ \/ /\ config \in {NoConfig, [table |-> TRUE, rows |-> {}]}
        /\ tables = {}
     \/ \E v \in 0 .. MaxVersion :
          /\ config = [table |-> TRUE, rows |-> {[key |-> MIGRATION_VERSION, value |-> v]}]
          /\ tables = TablesAt(v)
  /\ mig = NoRun
  /\ mres = "none"
  /\ mruns = 0

\* the run ends with an error: the transaction is dropped, nothing it did is
\* committed
Rollback(why) ==
  /\ mig' = NoRun
  /\ mres' = why
  /\ UNCHANGED <<config, tables, mruns>>

\* Db::migrate: self.executor() begins a transaction
MigrateBegin ==
  /\ mig.at = "idle"
  /\ mruns < MaxRuns
  /\ mruns' = mruns + 1
  /\ mig' = [at |-> "ensure", version |-> 0, config |-> config, tables |-> tables,
             step |-> 0]
  /\ mres' = "pending"
  /\ UNCHANGED <<config, tables>>
  /\ UNCHANGED <<storeVars, pipeVars, cipherVars, throttleVars, bodyVars, authVars,
                 frontVars>>

\* migrate: ensure_config_table, create table if not exists config
MigrateEnsure ==
  /\ mig.at = "ensure"
  /\ mig' = [mig EXCEPT !.at = "get", !.config.table = TRUE]
  /\ UNCHANGED <<config, tables, mres, mruns>>
  /\ UNCHANGED <<storeVars, pipeVars, cipherVars, throttleVars, bodyVars, authVars,
                 frontVars>>

\* migrate that takes a version it does not know as up to date
Dispatch_lenient(run, version) ==
  IF version = 0
  THEN [run EXCEPT !.at = "apply", !.version = 1, !.step = 1]
  ELSE [run EXCEPT !.at = "set", !.version = version, !.step = 0]

\* migrate, the head of the loop: match version { 0 => migration1.sql,
\* 1 => break, _ => return Err(MigrationVersionInvalid(version)) }, then
\* version += 1; the run it gives is at its next await, or over
Dispatch(run, version) ==
  IF version = 0
  THEN [run EXCEPT !.at = "apply", !.version = 1, !.step = 1]
  ELSE IF version = 1
       THEN [run EXCEPT !.at = "set", !.version = version, !.step = 0]
       ELSE NoRun

\* migrate starting its loop at version 0 whatever the database holds
MigrateGet_fromzero ==
  /\ mig.at = "get"
  /\ mig' = Dispatch(mig, 0)
  /\ mres' = IF mig'.at = "idle" THEN "MigrationVersionInvalid" ELSE mres
  /\ UNCHANGED <<config, tables, mruns>>
  /\ UNCHANGED <<storeVars, pipeVars, cipherVars, throttleVars, bodyVars, authVars,
                 frontVars>>

\* migrate: get_config(MigrationVersion).unwrap_or(0), then the loop up to
\* its first await
MigrateGet ==
  /\ mig.at = "get"
  /\ LET stored == get_config(mig.config, MIGRATION_VERSION)
         version == IF stored.some THEN stored.value ELSE 0
     IN  mig' = Dispatch(mig, version)
  /\ mres' = IF mig'.at = "idle" THEN "MigrationVersionInvalid" ELSE mres
  /\ UNCHANGED <<config, tables, mruns>>
  /\ UNCHANGED <<storeVars, pipeVars, cipherVars, throttleVars, bodyVars, authVars,
                 frontVars>>

\* migrate: one statement of the migration is executed; after the last the
\* loop comes round to its head
MigrateStatement ==
  /\ mig.at = "apply"
  /\ LET done == [mig EXCEPT !.tables = @ \cup {Migration1[mig.step]}]
     IN  mig' = IF mig.step < Len(Migration1)
                THEN [done EXCEPT !.step = @ + 1]
                ELSE Dispatch(done, mig.version)
  /\ mres' = IF mig'.at = "idle" THEN "MigrationVersionInvalid" ELSE mres
  /\ UNCHANGED <<config, tables, mruns>>
  /\ UNCHANGED <<storeVars, pipeVars, cipherVars, throttleVars, bodyVars, authVars,
                 frontVars>>

\* migrate: set_config(MigrationVersion, &version)
MigrateSet ==
  /\ mig.at = "set"
  /\ mig' = [mig EXCEPT !.at = "commit",
                        !.config = set_config(mig.config, MIGRATION_VERSION, mig.version)]
  /\ UNCHANGED <<config, tables, mres, mruns>>
  /\ UNCHANGED <<storeVars, pipeVars, cipherVars, throttleVars, bodyVars, authVars,
                 frontVars>>

\* Db::migrate: exec.commit()
MigrateCommit ==
  /\ mig.at = "commit"
  /\ config' = mig.config
  /\ tables' = mig.tables
  /\ mig' = NoRun
  /\ mres' = "ok"
  /\ UNCHANGED mruns
  /\ UNCHANGED <<storeVars, pipeVars, cipherVars, throttleVars, bodyVars, authVars,
                 frontVars>>

\* the database fails the query the run is at
MigrateFail ==
  /\ mig.at # "idle"
  /\ Rollback(CASE mig.at = "ensure" -> "ConfigTableCreate"
                [] mig.at = "get" -> "ConfigGet"
                [] mig.at = "apply" -> "Migration"
                [] mig.at = "set" -> "ConfigSet"
                [] mig.at = "commit" -> "TransactionCommit")
  /\ UNCHANGED <<storeVars, pipeVars, cipherVars, throttleVars, bodyVars, authVars,
                 frontVars>>

MigrateNext ==
  \/ MigrateBegin
  \/ MigrateEnsure
  \/ MigrateGet
  \/ MigrateStatement
  \/ MigrateSet
  \/ MigrateCommit
  \/ MigrateFail

MigrateInit ==
  /\ MigFresh
  /\ AuthIdle
  /\ BodyIdle
  /\ FrontIdle
  /\ ThrottleIdle
  /\ Empty
  /\ TasksInit
  /\ PipeIdle
  /\ CipherIdle

\* the service starts, once or again, on a database in any condition
SpecMigrate == MigrateInit /\ [][MigrateNext]_vars

\* ----------------------------------------------------- claims, pipeline view
\* the plaintext p of the stored file
Plain == SubSeq(content, 1, file.size)

\* the resolved range [a,b) and the chunk window of the last download
GotRanges == get_ranges(file.size, got.range)
GotValidRange ==
  /\ got.range.some
  /\ resolve_range(got.range, file.size).some
GotDone == pphase = "got" /\ got.ok

\* C1 (as claimed): a download of a valid range [a,b) from an unaltered object,
\* the remote returning exactly the requested ciphertext range, yields exactly
\* the bytes p[a:b].
C1_RangeEquivalence ==
  (GotDone /\ corrupt = {} /\ ~got.wide /\ GotValidRange)
    => /\ ~got.out.err
       /\ Flatten(got.out.items) = Slice(Plain, GotRanges.range.start, GotRanges.range.end)

\* C2: for every plaintext of length N >= 0 and every secret, encrypting from
\* chunk 0 and decrypting the rechunked ciphertext from chunk 0 yields the
\* plaintext; and a full download of an uploaded file returns its plaintext.
C2_RoundTrip ==
  /\ pphase = "tripped"
       => /\ ~trip.out.err
          /\ Flatten(trip.out.items) = content
  /\ (GotDone /\ corrupt = {} /\ ~GotValidRange)
       => /\ ~got.out.err
          /\ Flatten(got.out.items) = Plain

C2_Witness ==
  /\ pphase = "tripped"
  /\ Len(content) > CHUNK_SIZE
  /\ Len(content) % CHUNK_SIZE # 0
  /\ Len(trip.cipher) = Len(content) + 2 * TAG_SIZE
  /\ Flatten(trip.out.items) = content

\* the corrupt chunk lies in the chunk window fetched by the last download
CorruptInWindow ==
  \E k \in corrupt :
    GotRanges.chunk_range.start <= k /\ k < GotRanges.chunk_range.end

C10_SliceContract ==
  pphase = "sliced"
    => /\ ~sliced.out.err
       /\ Flatten(sliced.out.items) = Slice(Flatten(sliced.chunks), sliced.lo, sliced.hi)

\* the ciphertext range requested of the remote by the last download, and the
\* range of the response
GotRequested == got.ranges.encrypted_range
GotResponse == got.response

\* C14: Drive::get_file fails with the range-invalid error whenever the range
\* of the response starts after the requested start or ends before the
\* requested end; whenever it succeeds the response range covers the requested
\* one, so the slice offset requested.start - response.start is not negative.
C14_RemoteRangeValidation ==
  pphase = "got"
    => /\ (GotResponse.start > GotRequested.start \/ GotResponse.end < GotRequested.end)
            => ~got.ok /\ got.error = "FileRangeResponseInvalid"
       /\ got.ok => /\ GotResponse.start <= GotRequested.start
                    /\ GotResponse.end >= GotRequested.end
                    /\ GotRequested.start - GotResponse.start >= 0

C14_Witness ==
  /\ pphase = "got"
  /\ got.error = "FileRangeResponseInvalid"
  /\ GotResponse.start = GotRequested.start
  /\ GotResponse.end < GotRequested.end

\* the response range is a strict superset of the requested ciphertext range
GotSuperset ==
  /\ GotResponse.start <= GotRequested.start
  /\ GotResponse.end >= GotRequested.end
  /\ GotResponse # GotRequested

\* C15 (as claimed): scenario S5, when the remote answers with a range that is
\* a strict superset of the requested ciphertext range, for any chunking of the
\* body and any valid plaintext range [a,b), the plaintext returned is p[a:b].
C15_ScenarioS5 ==
  (GotDone /\ corrupt = {} /\ GotValidRange /\ GotSuperset)
    => /\ ~got.out.err
       /\ Flatten(got.out.items) = Slice(Plain, GotRanges.range.start, GotRanges.range.end)

\* the bounds of a requested range as positions: unbounded start -> 0,
\* unbounded end -> S, inclusive end -> end + 1 (saturating)
BoundStart(bound) ==
  CASE bound.k = "Unbounded" -> 0
    [] bound.k = "Included" -> bound.v
    [] OTHER -> Min(bound.v + 1, U64Max)
BoundEnd(bound, S) ==
  CASE bound.k = "Unbounded" -> S
    [] bound.k = "Included" -> Min(bound.v + 1, U64Max)
    [] OTHER -> bound.v

\* C16: for a file of size S and any requested bounds, Store::get uses [a,b)
\* when 0 <= a < b <= S and otherwise (no range, a >= b or b > S) uses [0,S);
\* the range reported always satisfies start <= end <= S.
C16_RangeNormalisation ==
  pphase = "got"
    => LET S == file.size
           a == BoundStart(got.range.start)
           b == BoundEnd(got.range.end, S)
           r == got.ranges.range
       IN  /\ r = IF got.range.some /\ 0 <= a /\ a < b /\ b <= S
                  THEN Range(a, b) ELSE Range(0, S)
           /\ r.start <= r.end /\ r.end <= S

C16_Witness ==
  /\ pphase = "got"
  /\ got.range = SomeRange(Included(1), Included(2))
  /\ got.ranges.range = Range(1, 3)

\* ------------------------------------------------------- claims, upload side
\* ceil(n / k)
CeilDiv(n, k) == (n + k - 1) \div k

\* C11: for every declared length N, chunk size K > 0 and every source that
\* delivers at least N bytes, chunk_stream emits exactly ceil(N/K) chunks whose
\* concatenation is the first N source bytes, each of length K except the last,
\* of length N mod K (or K when K divides N); for N = 0 it emits no chunk.
C11_RechunkContract ==
  (rechunked.done /\ rechunked.supplied >= rechunked.size)
    => LET N     == rechunked.size
           K     == rechunked.chunk_size
           items == rechunked.out.items
       IN  /\ ~rechunked.out.err
           /\ Len(items) = CeilDiv(N, K)
           /\ Flatten(items) = SubSeq(content, 1, N)
           /\ \A i \in 1 .. Len(items) :
                Len(items[i]) = IF i < Len(items) \/ N % K = 0 THEN K ELSE N % K

C11_Witness ==
  /\ rechunked.done
  /\ rechunked.supplied > rechunked.size
  /\ rechunked.size % rechunked.chunk_size # 0
  /\ Len(rechunked.out.items) >= 2
  /\ ~rechunked.out.err

\* C12: if the source ends or fails before N bytes have been read, chunk_stream
\* yields an error in place of a short last chunk or a clean end; the complete
\* chunks read before the shortfall are emitted first, nothing after the error.
C12_RechunkShortSource ==
  (rechunked.done /\ rechunked.supplied < rechunked.size)
    => LET K     == rechunked.chunk_size
           whole == (rechunked.supplied \div K) * K
       IN  /\ rechunked.out.err
           /\ rechunked.out.items = Pieces(SubSeq(content, 1, whole), K)

C12_Witness ==
  /\ rechunked.done
  /\ rechunked.supplied < rechunked.size
  /\ rechunked.supplied % rechunked.chunk_size # 0
  /\ Len(rechunked.out.items) >= 1
  /\ rechunked.out.err

\* C13: for every upload of size N > 0 whose source supplies at least N bytes,
\* the ciphertext bytes emitted number N + ceil(N/CHUNK_SIZE)*TAG_SIZE, which is
\* the encrypted_size passed to create_file, so the declared content-length
\* equals the number of body bytes streamed.
C13_CiphertextLength ==
  (sent.done /\ sent.size > 0 /\ sent.supplied >= sent.size)
    => /\ ~sent.err
       /\ sent.media = sent.size + CeilDiv(sent.size, CHUNK_SIZE) * TAG_SIZE
       /\ sent.media = sent.encrypted_size
       /\ sent.length = sent.body
       /\ pphase = "stored" /\ Len(object) = sent.media

C13_Witness ==
  /\ sent.done
  /\ sent.supplied > sent.size
  /\ sent.size > CHUNK_SIZE
  /\ sent.size % CHUNK_SIZE # 0
  /\ sent.length = sent.body
  /\ pphase = "stored"

\* ----------------------------------------------------- claims, metadata view
WithinLimit(d) == FileCount(files, d.key) <= DRIVE_MAX_FILE_LIMIT

\* C4 (as claimed): after any interleaving of uploads and deletes no drive has
\* more than DRIVE_MAX_FILE_LIMIT file records referencing it.
C4_DriveCapacity == \A d \in drives : WithinLimit(d)

\* two uploads into the empty system, both returned Ok, and nothing else ran
S3Done ==
  /\ fileSeq = 2
  /\ Cardinality(files) = 2
  /\ \E t1 \in Tasks, t2 \in Tasks :
       /\ t1 # t2
       /\ \A t \in {t1, t2} : op[t] = "upload" /\ res[t] = "ok"
       /\ \A t \in Tasks \ {t1, t2} : pc[t] = "idle"

\* C5 (as claimed): scenario S3, two concurrent uploads into the empty system
\* with DRIVE_MAX_FILE_LIMIT = 1 cause exactly two drive creations and the two
\* file records have distinct drive_key values.
C5_ScenarioS3 ==
  S3Done => /\ Cardinality(remoteDrives) = 2
            /\ \A f \in files, g \in files : f # g => f.drive_key # g.drive_key

\* the tasks between the least-files query and the drive insert
InGate == {t \in Tasks : pc[t] \in {"query", "create_drive", "add_drive"}}

\* C6: in a burst of concurrent allocations that starts with no drive within
\* the limit, at most one task is between the least-files query and the drive
\* insert, and one drive is created for the burst: at most one drive within the
\* limit ever exists, and every drive created at the remote has its row unless
\* its insert is pending or failed.
C6_AllocationGate ==
  /\ Cardinality(InGate) <= 1
  /\ Cardinality({d \in drives : WithinLimit(d)}) <= 1
  /\ \A id \in remoteDrives :
       \/ \E d \in drives : d.id = id
       \/ \E t \in Tasks : handle[t] = id /\ (pc[t] = "add_drive" \/ res[t] = "err_add_drive")

C6_Witness ==
  /\ files = {}
  /\ Cardinality(drives) = 1
  /\ Cardinality(remoteDrives) = 1
  /\ \A t \in Tasks : pc[t] = "create_file" /\ drive[t] \in drives

C8_UploadCommitOrder ==
  /\ [](\A t \in Tasks :
          (op[t] = "upload" /\ res[t] = "err_add_file") =>
            /\ handle[t] \in remoteFiles
            /\ \A f \in files : f.id # handle[t])
  /\ [][/\ \A f \in {g \in files' : file_by_key(files, g.key) = {}} :
             \E t \in Tasks :
               /\ pc[t] = "add_file" /\ pc'[t] = "done"
               /\ f.id = handle[t]
               /\ handle[t] \in remoteFiles
        /\ \A t \in Tasks :
             (op[t] = "upload" /\ pc[t] # "failed" /\ pc'[t] = "failed") => files' = files]_vars

C8_Witness ==
  \E t \in Tasks, u \in Tasks :
    /\ op[t] = "upload" /\ res[t] = "ok"
    /\ \E f \in files : f.id = handle[t]
    /\ op[u] = "upload" /\ res[u] = "err_add_file"

\* the delete of key k has removed the row
Deleted(k) ==
  \E t \in Tasks :
    /\ op[t] = "delete" /\ key[t] = k
    /\ pc[t] = "delete_file" \/ res[t] \in {"ok", "err_delete_file"}

\* C9: delete removes and commits the removal of the record before the remote
\* delete is issued; if the remote delete fails the record stays removed, and
\* no later get, get_info or delete of that key finds the record.
C9_DeleteCommitPoint ==
  /\ [](\A k \in Keys : Deleted(k) => file_by_key(files, k) = {})
  /\ [][/\ \A id \in remoteFiles \ remoteFiles' : \A f \in files : f.id # id
        /\ \A u \in Tasks :
             (pc[u] = "row" /\ pc'[u] # "row" /\ Deleted(key[u])) =>
               /\ pc'[u] \in {"done", "failed"}
               /\ res'[u] \in {"none", "err_row"}]_vars

C9_Witness ==
  \E t \in Tasks, u \in Tasks :
    /\ op[t] = "delete" /\ res[t] = "err_delete_file"
    /\ handle[t] \in remoteFiles
    /\ op[u] = "get" /\ key[u] = key[t] /\ res[u] = "none"

\* the files table with the accessed_time of the row of key k set to `time`
\* and nothing else changed
Touched(fs, k, time) ==
  {IF f.key = k
   THEN [key |-> f.key, id |-> f.id, drive_key |-> f.drive_key, accessed_time |-> time,
         secret |-> f.secret]
   ELSE f : f \in fs}

\* C18: Store::get on an existing key sets that record's accessed_time to the
\* current time and changes no other field and no other record; get_info (and a
\* get of a key without record, or a failed lookup) changes no record at all.
\* The record is found, and its time set, also when get then refuses its secret.
C18_AccessTime ==
  [][\A t \in Tasks :
       (pc[t] = "row" /\ pc'[t] # "row" /\ op[t] \in {"get", "get_info"}) =>
         /\ drives' = drives
         /\ IF op[t] = "get" /\ (pc'[t] = "get_file" \/ res'[t] = "SecretInvalid")
            THEN /\ file_by_key(files, key[t]) # {}
                 /\ files' = Touched(files, key[t], now)
            ELSE files' = files]_vars

C18_Witness ==
  \E f \in files, g \in files, t \in Tasks, u \in Tasks :
    /\ f.accessed_time > 0
    /\ g.accessed_time = 0
    /\ op[t] = "get" /\ key[t] = f.key /\ pc[t] \in {"get_file", "done"}
    /\ op[u] = "get_info" /\ key[u] = g.key /\ res[u] = "ok"
    /\ now > 0

\* the tasks holding a cell of the request limiter for a call not yet sent
Permitted == {t \in Tasks : permit[t]}

\* C19: every outbound request of the drive client (create_file, get_file,
\* delete_file, create_drive) acquires exactly one token of the shared request
\* limiter before it is sent; no request is sent, and no call leaves its await,
\* without a token acquired by the same call.
C19_RequestPacing ==
  /\ [](/\ acquired = drive_calls + Cardinality(Permitted)
        /\ \A t \in Permitted : pc[t] \in DriveCalls)
  /\ [][/\ \A t \in Tasks :
             (pc[t] \in DriveCalls /\ pc'[t] # pc[t]) =>
               /\ permit[t] /\ ~permit'[t]
               /\ drive_calls' = drive_calls + 1
               /\ acquired' = acquired
        /\ (remoteDrives' # remoteDrives \/ remoteFiles' # remoteFiles
              \/ remoteSeq' # remoteSeq \/ drive_calls' # drive_calls)
             => \E t \in Permitted : pc[t] \in DriveCalls /\ pc'[t] # pc[t]]_vars

C19_Witness ==
  \E t \in Tasks, u \in Tasks :
    /\ op[t] = "upload" /\ res[t] = "ok"
    /\ op[u] = "delete" /\ res[u] = "ok"
    /\ acquired = 2 /\ drive_calls = 2

\* C17: for a fixed secret the nonce of chunk i is the prefix of the nonce base
\* followed by (suffix + i) mod 2^32, so the nonces of distinct chunk indices
\* 0 <= i, j < 2^32 differ, and the prefix is the same for all chunks.
C17_NonceUniqueness ==
  /\ \A a \in nonces, b \in nonces : a.chunk_id # b.chunk_id => a.nonce # b.nonce
  /\ \A a \in nonces :
       /\ a.nonce.prefix = stream_cipher.prefix
       /\ a.nonce.suffix = (stream_cipher.suffix + a.chunk_id) % U32Mod

C17_Witness ==
  /\ Cardinality(nonces) = U32Mod
  /\ \E a \in nonces : a.chunk_id > 0 /\ a.nonce.suffix < stream_cipher.suffix

RECURSIVE SumOf(_, _)
\* the sum of f[t] over the tasks in S
SumOf(f, S) ==
  IF S = {} THEN 0
  ELSE LET t == CHOOSE x \in S : TRUE IN f[t] + SumOf(f, S \ {t})

\* no throttle call is in progress
Quiescent == \A t \in Tasks : thr[t].at = "idle"

\* C20: for any interleaving of concurrent throttle calls, each call with chunk
\* length L atomically replaces the residual r by (r + L) mod UNIT and requests
\* (r + L) / UNIT cells; at every quiescent point residual < UNIT and
\* UNIT * (cells requested) + residual = the sum of the chunk lengths passed
\* through the limiter.
C20_BandwidthAccounting ==
  /\ [](/\ leftover < UNIT
        /\ Quiescent => UNIT * consumed + leftover = passed
        /\ UNIT * (consumed + SumOf([t \in Tasks |-> thr[t].consume], Tasks)) + leftover
             = passed - SumOf([t \in Tasks |-> IF thr[t].at = "cas" THEN thr[t].length ELSE 0],
                              Tasks))
  /\ [][\A t \in Tasks :
          /\ (thr[t].at = "cas" /\ thr'[t].at = "wait") =>
               /\ leftover' = (leftover + thr[t].length) % UNIT
               /\ thr'[t].consume = (leftover + thr[t].length) \div UNIT
          /\ (thr[t].at = "cas" /\ thr'[t].at = "cas" /\ thr'[t] # thr[t]) =>
               /\ leftover' = leftover
               /\ thr[t].old # leftover /\ thr'[t].old = leftover
          /\ (thr[t].at = "wait" /\ thr'[t].at = "idle") =>
               consumed' = consumed + thr[t].consume]_vars

C20_Witness ==
  \E t \in Tasks, u \in Tasks :
    /\ thr[t].at = "cas" /\ thr[t].old # leftover
    /\ thr[u].at = "wait" /\ thr[u].consume > 0
    /\ consumed > 0

\* ------------------------------------------------ claims, limiter in time
\* an upload of scenario S4 that began on an idle limiter has sent its body
S4Done == transfer.at = "done" /\ transfer.size = S4Size /\ transfer.idle

TokenValid == access_token.some /\ aclock < access_token.expires

\* C22: token refresh is serialised. A token request is in flight only in the
\* hands of the task holding the lock, it is sent only when the cache is empty
\* or expired, and while the token of a refresh is valid that refresh is the
\* last request sent and every caller returns its token: concurrent callers
\* of an empty or expired cache cause exactly one token request.
C22_SerialisedRefresh ==
  /\ [](/\ \A t \in Tasks : apc[t] = "request" => alock = t
        /\ TokenValid =>
             /\ token_requests = access_token.token
             /\ \A t \in Tasks : apc[t] # "request")
  /\ [][/\ token_requests' # token_requests =>
             /\ token_requests' = token_requests + 1
             /\ ~TokenValid
        /\ \A t \in Tasks :
             (apc[t] # "done" /\ apc'[t] = "done") =>
               /\ access_token'.some
               /\ aret'[t] = access_token'.token]_vars

\* two callers met at an empty cache: one is refreshing, the other is held at
\* the lock, and the first has since returned the one token requested while
\* the second is about to
C22_Witness ==
  \E t \in Tasks, u \in Tasks :
    /\ apc[t] = "done" /\ aret[t] = 1
    /\ apc[u] = "lock"
    /\ acalls = 2
    /\ token_requests = 1
    /\ TokenValid

\* C28: token expiry rule. A refresh whose request read the clock at t and
\* was granted expires_in seconds caches the token with expiry
\* t + max(expires_in - 10, 10), the subtraction saturating at 0; a call let in
\* at a time before that expiry returns the cached token with no new request,
\* a call let in at or after it sends a new request.
C28_TokenExpiry ==
  [][\A t \in Tasks :
       /\ (apc[t] = "request" /\ apc'[t] = "done") =>
            /\ access_token'.some
            /\ access_token'.token = areq[t].token
            /\ access_token'.expires - areq[t].now =
                 (IF areq[t].expires_in < EARLY_REFRESH THEN EARLY_REFRESH
                  ELSE IF areq[t].expires_in - EARLY_REFRESH < EARLY_REFRESH
                       THEN EARLY_REFRESH
                       ELSE areq[t].expires_in - EARLY_REFRESH)
       /\ (apc[t] = "lock" /\ apc'[t] # "lock" /\ access_token.some) =>
            IF aclock < access_token.expires
            THEN /\ apc'[t] = "done"
                 /\ aret'[t] = access_token.token
                 /\ token_requests' = token_requests
            ELSE /\ apc'[t] = "request"
                 /\ token_requests' = token_requests + 1]_vars

\* the token of the first refresh, cached for longer than the early refresh
\* after time 0, has just run out, and a call let in at that very instant has
\* sent the second request
C28_Witness ==
  \E t \in Tasks :
    /\ apc[t] = "request" /\ areq[t].token = 2
    /\ access_token.some /\ access_token.token = 1
    /\ access_token.expires = areq[t].now
    /\ access_token.expires = aclock
    /\ access_token.expires > EARLY_REFRESH

\* ------------------------------------------------------- claims, migrations
\* the migration version the database carries, 0 when it carries none
StoredVersion ==
  IF \E r \in config.rows : r.key = MIGRATION_VERSION
  THEN (CHOOSE r \in config.rows : r.key = MIGRATION_VERSION).value ELSE 0

\* C23: forward-incompatible schema. A run of migrate on a stored version
\* greater than 1 never succeeds and, once it has read the version, fails with
\* MigrationVersionInvalid; a run that fails commits nothing (tables and stored
\* version as before); a run that succeeds on stored version 0 or none has
\* applied migration 1 and left version 1 under config key 1.
C23_MigrationVersion ==
  [][(mig.at # "idle" /\ mig'.at = "idle") =>
       /\ StoredVersion > 1 =>
            /\ mres' # "ok"
            /\ mig.at = "get" /\ mres' # "ConfigGet" => mres' = "MigrationVersionInvalid"
       /\ mres' # "ok" => config' = config /\ tables' = tables
       /\ (mres' = "ok" /\ StoredVersion = 0) =>
            /\ tables' = {"drives", "files"}
            /\ config'.table
            /\ config'.rows = {[key |-> 1, value |-> 1]}
       /\ (mres' = "ok" /\ StoredVersion = 1) => tables' = tables /\ config' = config]_vars

\* the first start on a database left at a later version was refused, and the
\* database is as that release left it
C23_Witness ==
  /\ StoredVersion > 1
  /\ mres = "MigrationVersionInvalid"
  /\ mruns = 1
  /\ tables = TablesAt(StoredVersion)

\* ------------------------------------------------------ claims, the secret
\* the plaintext chunks the stored object gives under the secret of the record
Reopened ==
  decrypt_stream(chunk_stream(Len(object), Stream(<<object>>, FALSE), ENCRYPTED_CHUNK_SIZE),
                 secret_of(file.secret).secret, 0)

\* C24: the record Store::upload inserts carries a secret of exactly
\* SECRET_SIZE bytes, the key and then the nonce base, and it is the secret the
\* uploaded stream was encrypted with: the cipher made of the record's secret
\* opens every chunk of the stored object and gives the file back.
C24_SecretInvariant ==
  pphase = "stored" =>
    /\ Len(file.secret) = KEY_SIZE + NONCE_SIZE
    /\ secret_of(file.secret).ok
    /\ secret_of(file.secret).secret \in Secrets
    /\ ~Reopened.err
    /\ Flatten(Reopened.items) = SubSeq(content, 1, file.size)

\* a file of more than one chunk was stored under the secret whose nonce base
\* differs from its key
C24_Witness ==
  /\ pphase = "stored"
  /\ file.size > CHUNK_SIZE
  /\ file.secret[1] # file.secret[SECRET_SIZE]

\* the record of the key has a secret that is not SECRET_SIZE bytes long
BadSecret(k) == \E f \in files : f.key = k /\ Len(f.secret) # SECRET_SIZE

\* C25: Store::get on a record whose stored secret is not exactly SECRET_SIZE
\* bytes fails with the invalid-secret error before any remote request is
\* issued and before any cell of the request limiter is taken, and returns no
\* content stream.
C25_InvalidSecret ==
  /\ [](\A t \in Tasks :
          (op[t] = "get" /\ BadSecret(key[t])) =>
            /\ pc[t] \notin DriveCalls
            /\ ~permit[t]
            /\ res[t] \in {"pending", "SecretInvalid", "err_row"})
  /\ [][\A t \in Tasks :
          (op[t] = "get" /\ BadSecret(key[t]) /\ pc[t] = "row" /\ pc'[t] # "row") =>
            /\ pc'[t] = "failed"
            /\ acquired' = acquired
            /\ drive_calls' = drive_calls
            /\ remoteFiles' = remoteFiles]_vars

\* a get of a record with a short secret was refused while another task's get
\* of a whole record went to the remote
C25_Witness ==
  \E t \in Tasks, u \in Tasks :
    /\ op[t] = "get" /\ BadSecret(key[t]) /\ res[t] = "SecretInvalid"
    /\ op[u] = "get" /\ ~BadSecret(key[u]) /\ res[u] = "ok"
    /\ drive_calls = 1

\* ------------------------------------------------ claims, the request body
\* C26: zero-length upload. For Store::upload with size = 0 the pipeline
\* produces zero chunks, and the ciphertext length declared to the remote (the
\* size passed to create_file and counted in content-length) is 0, the number
\* of ciphertext bytes streamed.
C26_ZeroLengthUpload ==
  (sent.done /\ sent.size = 0)
    => /\ sent.media = 0
       /\ sent.encrypted_size = 0
       /\ sent.encrypted_size = sent.media
       /\ sent.length = sent.body

\* ------------------------------------------------ chunk order and the planner
\* the secret of the stored file
FileSecret == secret_of(file.secret).secret
\* the ciphertext chunks the upload emitted, and the plaintext chunks under them
UploadChunks == Pieces(object, ENCRYPTED_CHUNK_SIZE)
PlainChunks == Pieces(Plain, CHUNK_SIZE)
\* the ciphertext window of the last download, at the remote
GotWindow == Slice(object, GotRequested.start, GotRequested.end)
\* the range of the object that the body of the last response holds
GotBodyRange ==
  LET answer == Answer(object, GotRequested, got.kind)
  IN  IF answer.status = 206 THEN Range(answer.first, answer.last + 1)
      ELSE Range(0, Len(answer.body))
\* what decrypt_stream emits for the ciphertext handed to it in the last download
GotDecrypted == decrypt_stream(got.fed, FileSecret, got.ranges.chunk_range.start)

\* C27: within one transfer the chunk counter starts at 0 for an upload and at
\* chunk_start for a download and advances by one for each chunk: the k-th
\* chunk of the object is the k-th plaintext chunk encrypted with index k-1,
\* and the k-th chunk a download decrypts is plaintext chunk chunk_start+k-1,
\* decrypted with that index, with no gap, repetition or reordering.
C27_ChunkOrder ==
  /\ pphase \in {"stored", "got"}
       => /\ Len(UploadChunks) = Len(PlainChunks)
          /\ \A k \in 1 .. Len(UploadChunks) :
               UploadChunks[k] = encrypt(FileSecret, k - 1, PlainChunks[k])
  /\ (GotDone /\ GotResponse = GotBodyRange)
       => LET first == got.ranges.chunk_range.start
              last  == got.ranges.chunk_range.end
          IN  /\ ~GotDecrypted.err
              /\ Len(GotDecrypted.items) = last - first
              /\ \A k \in 1 .. Len(GotDecrypted.items) :
                   /\ GotDecrypted.items[k] = PlainChunks[first + k]
                   /\ decrypt(FileSecret, first + k - 1, got.fed.items[k]).ok
              /\ got.out = slice_stream(GotDecrypted, got.ranges.content_range.start,
                                        got.ranges.content_range.end)

\* C27 witness: a download of the second and third chunks of a three-chunk file
C27_Witness ==
  /\ GotDone
  /\ got.kind = "exact"
  /\ Len(UploadChunks) = 3
  /\ got.ranges.chunk_range = Range(1, 3)
  /\ Len(GotDecrypted.items) = 2

\* C29: for a file of size S > 0 and every resolved range the requested
\* ciphertext window [enc_start, enc_end) is not empty, lies within the
\* encrypted size, starts on a ciphertext chunk boundary, and rechunked at
\* ENCRYPTED_CHUNK_SIZE is exactly the upload's chunks chunk_start ..
\* chunk_end-1 (one of them short only if it is the file's last chunk); the
\* k-th of them decrypts with index chunk_start+k-1 and no other, and the trim
\* window ends within the plaintext of those chunks.
C29_PlannerAlignment ==
  (pphase = "got" /\ file.size > 0 /\ got.error # "SecretInvalid")
    => LET first  == got.ranges.chunk_range.start
           last   == got.ranges.chunk_range.end
           window == Pieces(GotWindow, ENCRYPTED_CHUNK_SIZE)
           plain  == SubSeq(PlainChunks, first + 1, last)
       IN  /\ got.ranges = get_ranges(file.size, got.range)
           /\ GotRequested.start < GotRequested.end
           /\ GotRequested.end <= encrypted_size(file.size)
           /\ Len(object) = encrypted_size(file.size)
           /\ GotRequested.start = first * ENCRYPTED_CHUNK_SIZE
           /\ first < last /\ last <= Len(UploadChunks)
           /\ window = SubSeq(UploadChunks, first + 1, last)
           /\ \A k \in 1 .. Len(window) :
                /\ Len(window[k]) < ENCRYPTED_CHUNK_SIZE => first + k = Len(UploadChunks)
                /\ \A j \in 0 .. (Len(UploadChunks) - 1) :
                     decrypt(FileSecret, j, window[k]).ok <=> j = first + k - 1
           /\ decrypt_stream(Stream(window, FALSE), FileSecret, first)
                = Stream(plain, FALSE)
           /\ got.ranges.content_range.start < got.ranges.content_range.end
           /\ got.ranges.content_range.end <= Len(Flatten(plain))

\* C29 witness: a range from the second chunk into the short last chunk
C29_Witness ==
  /\ pphase = "got"
  /\ file.size = 2 * CHUNK_SIZE + 1
  /\ got.ranges.range = Range(CHUNK_SIZE, file.size)
  /\ GotRequested = Range(ENCRYPTED_CHUNK_SIZE, Len(object))

\* C30: whenever the response covers the requested ciphertext range, however
\* its body is cut into pieces, the bytes handed to decrypt_stream are the
\* bytes [enc_start, enc_end) of the remote object, in chunks of
\* ENCRYPTED_CHUNK_SIZE, and never more than the window length.
C30_CiphertextStage ==
  (GotDone /\ GotResponse = GotBodyRange)
    => /\ GotResponse.start <= GotRequested.start
       /\ GotResponse.end >= GotRequested.end
       /\ ~got.fed.err
       /\ Flatten(got.fed.items) = GotWindow
       /\ Len(Flatten(got.fed.items)) <= GotRequested.end - GotRequested.start
       /\ got.fed.items = Pieces(GotWindow, ENCRYPTED_CHUNK_SIZE)

\* C30 witness: the whole object in answer to a request for its middle chunk
C30_Witness ==
  /\ GotDone
  /\ GotResponse = GotBodyRange
  /\ GotResponse.start < GotRequested.start
  /\ GotResponse.end > GotRequested.end
  /\ got.fed.items # <<>>

\* ------------------------------------------------ claims, failures of a download
\* C31: when the first chunk of the fetched window that does not decrypt is
\* the one at position k, the content stream emits the plaintext of the
\* window's chunks before position k, trimmed at the start of the range, then
\* one error and nothing afterwards: no item comes from chunk k or a later one.
C31_DecryptFailureShape ==
  (GotDone /\ CorruptInWindow)
    => \A j \in corrupt :
         LET first  == got.ranges.chunk_range.start
             k      == j - first
             before == SubSeq(PlainChunks, first + 1, j)
             trim   == got.ranges.content_range
         IN  /\ \A i \in 1 .. Len(got.fed.items) :
                  decrypt(FileSecret, first + i - 1, got.fed.items[i]).ok <=> i # k + 1
             /\ got.out.err
             /\ Len(got.out.items) <= k
             /\ Flatten(got.out.items) = Slice(Flatten(before), trim.start, Len(Flatten(before)))
             /\ got.out = slice_stream(Stream(before, TRUE), trim.start, trim.end)

\* C31 witness: the second chunk of a window is altered and a later chunk of
\* the file is whole; the part of the first chunk after the range start came out
C31_Witness ==
  /\ GotDone
  /\ got.ranges.chunk_range.start = 0
  /\ corrupt = {1}
  /\ got.ranges.chunk_range.end >= 2
  /\ got.ranges.content_range.start = 1
  /\ Len(got.out.items) = 1
  /\ got.out.err

\* ------------------------------------------------ claims, deletes and missing keys
\* task t is a delete that went on to the remote: its request is due, or was
\* answered
RemoteDelete(t) ==
  /\ op[t] = "delete"
  /\ pc[t] = "delete_file" \/ res[t] \in {"ok", "err_delete_file"}

\* C32: a delete goes on to the remote only in the step in which its own
\* database delete removed and returned the row, with that row's id; so of any
\* number of deletes of one key at most one goes to the remote, and a delete
\* that finds no row returns none (or the database error) without a drive call
\* and without a cell of the request limiter.
C32_SingleRemoteDelete ==
  /\ [](\A t \in Tasks, u \in Tasks :
          (t # u /\ RemoteDelete(t) /\ RemoteDelete(u))
            => key[t] # key[u] /\ handle[t] # handle[u])
  /\ [][\A t \in Tasks :
          /\ (pc[t] # "delete_file" /\ pc'[t] = "delete_file")
               => \E f \in files \ files' :
                    /\ f.key = key[t]
                    /\ handle'[t] = f.id
                    /\ file_by_key(files', key[t]) = {}
          /\ (op[t] = "delete" /\ pc[t] = "row" /\ pc'[t] # "row"
                /\ file_by_key(files, key[t]) = {})
               => /\ pc'[t] \in {"done", "failed"}
                  /\ res'[t] \in {"none", "err_row"}
                  /\ drive_calls' = drive_calls
                  /\ acquired' = acquired
                  /\ remoteFiles' = remoteFiles
                  /\ files' = files]_vars

\* C32 witness: two deletes of one key are over, one deleted the object at the
\* remote in the only drive call made, the other found nothing
C32_Witness ==
  \E t \in Tasks, u \in Tasks :
    /\ op[t] = "delete" /\ op[u] = "delete"
    /\ key[t] = key[u]
    /\ pc[t] = "done" /\ res[t] = "ok"
    /\ pc[u] = "done" /\ res[u] = "none"
    /\ handle[t] \notin remoteFiles
    /\ drive_calls = 1

\* task t is a get, get_info or delete that found no record for its key
FoundNone(t) ==
  /\ op[t] \in {"get", "get_info", "delete"}
  /\ res[t] = "none"

\* C33: a get, get_info or delete of a key that has no file record returns
\* none in the step of its database call (unless that call fails), and that
\* step leaves the file and drive records, the remote and the request limiter
\* as they were; the call is over then, so it never takes a cell of the
\* limiter nor makes a drive call.
C33_MissingKey ==
  /\ [](\A t \in Tasks :
          FoundNone(t) => pc[t] = "done" /\ ~permit[t] /\ handle[t] = 0)
  /\ [][\A t \in Tasks :
          /\ (op[t] \in {"get", "get_info", "delete"} /\ pc[t] = "row" /\ pc'[t] # "row"
                /\ file_by_key(files, key[t]) = {})
               => /\ \/ (pc'[t] = "done" /\ res'[t] = "none")
                     \/ (pc'[t] = "failed" /\ res'[t] = "err_row")
                  /\ files' = files
                  /\ drives' = drives
                  /\ remoteFiles' = remoteFiles
                  /\ remoteDrives' = remoteDrives
                  /\ acquired' = acquired
                  /\ drive_calls' = drive_calls
                  /\ permit' = permit
          /\ FoundNone(t)
               => /\ FoundNone(t)'
                  /\ (acquired' # acquired \/ drive_calls' # drive_calls)
                       => \E u \in Tasks : u # t /\ (permit'[u] # permit[u])]_vars

\* C33 witness: a get and a delete of keys without a record have returned none
\* while the stored file and its drive are there and no drive call was made
C33_Witness ==
  \E t \in Tasks, u \in Tasks :
    /\ op[t] = "get" /\ op[u] = "delete"
    /\ FoundNone(t) /\ FoundNone(u)
    /\ files # {} /\ files \subseteq {f \in files : f.accessed_time = 0}
    /\ remoteFiles # {}
    /\ acquired = 0 /\ drive_calls = 0

\* ------------------------------------------------ claims, the allocation gate
\* the awaits of allocate_file after the lock was taken
GateScope == {"query", "create_drive", "add_drive"}

\* C34: the allocation gate is held by a task exactly while it is inside
\* allocate_file past the lock, and the step that takes the task out of
\* allocate_file, with a drive or with the error of the query, of the drive
\* creation or of the insert, frees it; it is not held during create_file or
\* add_file. Every task waiting for the gate acquires it, provided the
\* holder's database and remote calls return.
C34_GateScope ==
  /\ [](\A t \in Tasks : gate = t <=> pc[t] \in GateScope)
  /\ [][\A t \in Tasks :
          (gate = t /\ pc'[t] \notin GateScope)
            => /\ gate' = 0
               /\ pc'[t] \in {"create_file", "failed"}
               /\ pc'[t] = "failed"
                    => res'[t] \in {"err_query", "err_create_drive", "err_add_drive"}]_vars
  /\ \A t \in Tasks : (pc[t] = "lock") ~> (gate = t)

\* C34 witness: a task holds the gate after another left allocate_file with
\* the error of the drive creation
C34_Witness ==
  \E t \in Tasks, u \in Tasks :
    /\ res[t] = "err_create_drive"
    /\ gate = u
    /\ pc[u] = "create_drive"

\* ------------------------------------------------ claims, the upload limiter
\* the cells the last throttle call computed for its buffer
Charged == consumed' - consumed

\* C35: every buffer whose cell count consume is > 0 is forwarded by
\* throttle_stream only with consume cells deducted from the limiter, whose
\* state then lies at least consume emission intervals further on, also when
\* consume is more than the burst; no buffer passes uncharged.
C35_ThrottleCharges ==
  [][Charged > 0
       => /\ body' = Tail(body)
          /\ tat' >= tat + Charged * (Quota.period \div Quota.burst)]_vars

\* the part of C35 for cell counts within the burst
C35_WithinBurst ==
  [][(Charged > 0 /\ Charged <= Quota.burst)
       => /\ body' = Tail(body)
          /\ tat' >= tat + Charged * (Quota.period \div Quota.burst)
          /\ ltime' >= tat]_vars

C36_LongLived ==
  [][\A t \in Tasks :
       (apc[t] = "lock" /\ apc'[t] = "done"
          /\ token_until - access_token.expires >= 0)
         => /\ aret'[t] = access_token.token
            /\ aclock <= token_until]_vars

\* C37: when the token request of a call fails, the call returns the error
\* and no token, the cached (token, expiry) is exactly as it was and the lock
\* is free; the next call let in at that cache sends a new request. No call
\* returns a token unless one is cached.
C37_RefreshFailure ==
  /\ [](\A t \in Tasks : apc[t] = "failed" => aret[t] = 0 /\ alock # t)
  /\ [][\A t \in Tasks :
          /\ (apc[t] = "request" /\ apc'[t] = "failed")
               => /\ access_token' = access_token
                  /\ alock = t /\ alock' = 0
                  /\ aret'[t] = 0
                  /\ token_requests' = token_requests
          /\ (apc[t] # "done" /\ apc'[t] = "done")
               => /\ access_token'.some
                  /\ aret'[t] = access_token'.token
                  /\ aret'[t] # 0
          /\ (apc[t] = "lock" /\ apc'[t] # "lock" /\ ~TokenValid)
               => /\ apc'[t] = "request"
                  /\ token_requests' = token_requests + 1]_vars

\* C37 witness: the first token has run out, the request of the call that
\* found it so failed and left it in the cache, and the next call is let in
\* and has sent the third request
C37_Witness ==
  \E t \in Tasks, u \in Tasks :
    /\ apc[t] = "failed"
    /\ apc[u] = "request" /\ alock = u
    /\ access_token.some /\ access_token.token = 1
    /\ access_token.expires <= aclock
    /\ token_requests = 3

\* ------------------------------------------------ claims, the HTTP front end
\* task t received a POST / whose content-length is 0 or missing
ZeroLength(t) ==
  /\ request[t] # NoPost
  /\ request[t].length \in {Missing, Value(0)}

\* C38: a POST / whose content-length is 0 or missing is answered with status
\* 400 and Store::upload is not called for it: the request is over with no
\* drive allocated, no drive call and no cell of the limiter; every upload
\* that Store runs for the HTTP surface has a size > 0.
C38_ZeroLengthRejected ==
  /\ [](\A t \in Tasks :
          /\ ZeroLength(t)
               => /\ request[t].status = 400
                  /\ op[t] = "post" /\ pc[t] = "done"
                  /\ drive[t] = NoDrive /\ handle[t] = 0 /\ ~permit[t] /\ gate # t
          /\ op[t] = "upload"
               => request[t].size > 0 /\ request[t].length = Value(request[t].size))
  /\ [][\A t \in Tasks :
          (~ZeroLength(t) /\ ZeroLength(t)')
            => /\ drives' = drives /\ remoteDrives' = remoteDrives
               /\ files' = files /\ remoteFiles' = remoteFiles
               /\ gate' = gate
               /\ acquired' = acquired /\ drive_calls' = drive_calls]_vars

\* C38 witness: one POST with content-length 0 and one without the header were
\* rejected while the store is untouched
C38_Witness ==
  \E t \in Tasks, u \in Tasks :
    /\ request[t].length = Value(0) /\ request[t].status = 400
    /\ request[u] # NoPost /\ request[u].length = Missing /\ request[u].status = 400
    /\ drives = {} /\ remoteDrives = {}

\* ------------------------------------------------ claims, migrations again
\* the errors of a run whose query the database failed
DbFailures == {"ConfigTableCreate", "ConfigGet", "Migration", "ConfigSet",
               "TransactionCommit"}

\* C39: a run of migrate on a database whose stored version is 1 executes no
\* statement of a migration, succeeds unless the database fails one of its
\* queries, and leaves the tables and the stored version 1 as they were;
\* statements of migration 1 are executed only by a run on a database at
\* version 0, and every run that succeeds leaves version 1 with migration 1
\* applied, so however many runs succeed it is applied once.
C39_MigrationIdempotence ==
  [][/\ (mig.at = "apply" \/ mig'.at = "apply") => StoredVersion = 0
     /\ (StoredVersion = 1 /\ mig.at # "idle")
          => /\ mig.tables = tables
             /\ mig'.at # "idle" => mig'.tables = tables
             /\ mig'.at = "idle"
                  => /\ mres' \in {"ok"} \cup DbFailures
                     /\ tables' = tables
                     /\ config' = config
     /\ (mig.at # "idle" /\ mig'.at = "idle" /\ mres' = "ok")
          => /\ StoredVersion' = 1
             /\ tables' = TablesAt(1)
             /\ StoredVersion \in {0, 1}]_vars

\* C39 witness: a later run on a database already at version 1 is about to
\* commit and has executed no statement
C39_Witness ==
  /\ mruns >= 2
  /\ StoredVersion = 1
  /\ tables = TablesAt(1)
  /\ mig.at = "commit"
  /\ mig.tables = tables
  /\ mig.config = config
====
